---- MODULE Spec2Model ----
(***************************************************************************)
(* payoutd: the daemon between the redis request/response/event topics and *)
(* the SSP cash hardware (smart hopper, address 0x10; note validator /      *)
(* smart payout, address 0x00).  The model follows src/payoutd.c: every     *)
(* libevent callback is one action, run to completion on the single        *)
(* thread of the event loop.                                               *)
(*                                                                         *)
(* Text.  A C string is modelled as a sequence of symbols; strstr works on *)
(* these sequences and the JSON library parses them.                       *)
(***************************************************************************)
EXTENDS Integers, Sequences, FiniteSets, TLC

VARIABLES
    deviceAvailable,   \* metacash.deviceAvailable
    receivedSignal,    \* the global receivedSignal
    channelInhibits,   \* m_device.channelInhibits, per device
    loopExit,          \* event_base_loopexit has been called
    pc,                \* "loop": waiting in event_base_dispatch; "callback": a
                       \* callback has just run; "exited": the process has ended
    exitCode,          \* exit status of the process (-1 while it runs)
    callback,          \* the callback that has just run ("none" while waiting)
    request,           \* the redis message that callback was given
    replies,           \* what it published on the response topics, in order
    events,            \* what it published on the event topics, in order
    exchanges,         \* the SSP exchanges it sent, in order
    inhibitsBefore,    \* channelInhibits when it started
    polled,            \* the poll answers of hopper and validator it was given
    sspSetupReq,       \* m_device.sspSetupReq, per device: the values of the
                       \* channels ssp6_setup_request reported
    pollArmed          \* the timer evPoll of cbOnPollEvent has been added

vars == <<deviceAvailable, receivedSignal, channelInhibits, loopExit, pc, exitCode,
          callback, request, replies, events, exchanges, inhibitsBefore, polled,
          sspSetupReq, pollArmed>>

-----------------------------------------------------------------------------
(* Bounds of the model *)

\* longest channels string of the digit-string specification
MaxChannelsLen == 2

-----------------------------------------------------------------------------
(* Text *)

\* A C string is a sequence of symbols: each punctuation character, quote and
\* digit is a symbol of its own, a name made of letters and dashes is one symbol.
Quote == "\""
Digits == <<"0", "1", "2", "3", "4", "5", "6", "7", "8", "9">>

IsDigit(c) == \E d \in 1..10 : Digits[d] = c
DigitValue(c) == (CHOOSE d \in 1..10 : Digits[d] = c) - 1

\* strstr(haystack, needle) != NULL
StrStr(haystack, needle) ==
    \E i \in 1..(Len(haystack) + 1 - Len(needle)) :
        \A j \in 1..Len(needle) : haystack[i + j - 1] = needle[j]

\* the text of a JSON string literal with content s
Quoted(s) == <<Quote>> \o s \o <<Quote>>

\* asprintf(&commandPattern, "\"cmd\":\"%s\"", command)
CommandPattern(command) == Quoted(<<"cmd">>) \o <<":">> \o Quoted(command)

isCommand(message, command) == StrStr(message, CommandPattern(command))

-----------------------------------------------------------------------------
(* JSON values, as the JSON library hands them to the daemon *)

JNull == [type |-> "null", s |-> <<>>, n |-> 0, o |-> <<>>]
JString(s) == [type |-> "string", s |-> s, n |-> 0, o |-> <<>>]
JNumber(x) == [type |-> "number", s |-> <<>>, n |-> x, o |-> <<>>]
JObject(members) == [type |-> "object", s |-> <<>>, n |-> 0, o |-> members]

ParseFail == [ok |-> FALSE, val |-> JNull, next |-> 0]

IsAt(t, i, sym) == i <= Len(t) /\ t[i] = sym

RECURSIVE SkipSpace(_, _)
SkipSpace(t, i) ==
    IF IsAt(t, i, " ") THEN SkipSpace(t, i + 1) ELSE i

\* the index of the first quote at or after i (Len(t) + 1 when there is none)
RECURSIVE ClosingQuote(_, _)
ClosingQuote(t, i) ==
    IF i > Len(t) \/ t[i] = Quote THEN i ELSE ClosingQuote(t, i + 1)

\* the index after the run of digits that starts at i
RECURSIVE DigitsEnd(_, _)
DigitsEnd(t, i) ==
    IF i <= Len(t) /\ IsDigit(t[i]) THEN DigitsEnd(t, i + 1) ELSE i

\* the number written by the digits ds
RECURSIVE Decimal(_)
Decimal(ds) ==
    IF ds = <<>> THEN 0
    ELSE 10 * Decimal(SubSeq(ds, 1, Len(ds) - 1)) + DigitValue(ds[Len(ds)])

\* a string literal whose opening quote is at i
ParseString(t, i) ==
    LET q == ClosingQuote(t, i + 1) IN
    IF q > Len(t) THEN ParseFail
    ELSE [ok |-> TRUE, val |-> JString(SubSeq(t, i + 1, q - 1)), next |-> q + 1]

RECURSIVE ParseValue(_, _), ParseMembers(_, _, _)
\* a JSON value starting at i (after optional white space)
ParseValue(t, i) ==
    LET j == SkipSpace(t, i) IN
    IF j > Len(t) THEN ParseFail
    ELSE IF t[j] = Quote THEN ParseString(t, j)
    ELSE IF IsDigit(t[j]) THEN
        LET e == DigitsEnd(t, j) IN
        [ok |-> TRUE, val |-> JNumber(Decimal(SubSeq(t, j, e - 1))), next |-> e]
    ELSE IF t[j] = "{" THEN
        LET j2 == SkipSpace(t, j + 1) IN
        IF IsAt(t, j2, "}") THEN [ok |-> TRUE, val |-> JObject(<<>>), next |-> j2 + 1]
        ELSE ParseMembers(t, j2, <<>>)
    ELSE ParseFail

\* the members of an object from i on, up to and including its "}"
ParseMembers(t, i, acc) ==
    LET j == SkipSpace(t, i) IN
    IF ~IsAt(t, j, Quote) THEN ParseFail
    ELSE
        LET k == ParseString(t, j) IN
        IF ~k.ok THEN ParseFail
        ELSE
            LET c == SkipSpace(t, k.next) IN
            IF ~IsAt(t, c, ":") THEN ParseFail
            ELSE
                LET r == ParseValue(t, c + 1) IN
                IF ~r.ok THEN ParseFail
                ELSE
                    LET e == SkipSpace(t, r.next)
                        acc2 == Append(acc, [key |-> k.val.s, val |-> r.val])
                    IN  IF IsAt(t, e, ",") THEN ParseMembers(t, e + 1, acc2)
                        ELSE IF IsAt(t, e, "}") THEN
                            [ok |-> TRUE, val |-> JObject(acc2), next |-> e + 1]
                        ELSE ParseFail

\* json_loads(message, 0, &error): NULL unless the whole text is one object
json_loads(message) ==
    LET r == ParseValue(message, 1) IN
    IF r.ok /\ r.val.type = "object" /\ SkipSpace(message, r.next) > Len(message)
    THEN r.val ELSE JNull

\* json_object_get(json, key): the value set last for key, NULL when there is none
json_object_get(json, key) ==
    IF json.type # "object" THEN JNull
    ELSE LET idx == {i \in 1..Len(json.o) : json.o[i].key = key} IN
         IF idx = {} THEN JNull
         ELSE json.o[CHOOSE i \in idx : \A j \in idx : j <= i].val

json_is_string(j) == j.type = "string"
json_is_number(j) == j.type = "number"
json_string_value(j) == j.s
json_number_value(j) == j.n

-----------------------------------------------------------------------------
(* Devices and the SSP link *)

Devices == {"hopper", "validator"}

\* metacash.hopper.id = 0x10, metacash.validator.id = 0x00
SSPAddress(device) == IF device = "hopper" THEN 16 ELSE 0

\* what an SSP exchange returns to its caller
Results == {"OK", "FAIL", "TIMEOUT", "KEY_NOT_SET"}

\* SSP6_OPTION_BYTE_DO and SSP6_OPTION_BYTE_TEST of the vendor library
OptionDo == 88
OptionTest == 25

\* exit statuses of a process killed by SIGSEGV and by SIGABRT
StatusSegv == 139
StatusAbort == 134

\* one exchange on the serial link: operation op with parameters p1, p2 sent to
\* the device of sspC, answered with res; data1 is sspC.ResponseData[1] of the
\* answer where a handler reads it; waited tells that hardwareWaitTime was
\* called since the exchange before it
Exchange(device, op, p1, p2, res) ==
    [addr |-> SSPAddress(device), op |-> op, p1 |-> p1, p2 |-> p2, res |-> res,
     data1 |-> 0, waited |-> FALSE, data |-> <<>>]

\* the exchange x with ResponseData[1] = data1 in its answer
WithResponseData(x, data1) == [x EXCEPT !.data1 = data1]

\* the exchange x with the bytes data in ResponseData[1..] of its answer
WithResponse(x, data) == [x EXCEPT !.data = data]

\* the exchange x sent after a call of hardwareWaitTime
Waited(x) == [x EXCEPT !.waited = TRUE]

\* the exchanges xs, the first of them sent after a call of hardwareWaitTime
WaitedFirst(xs) == IF xs = <<>> THEN xs ELSE <<Waited(Head(xs))>> \o Tail(xs)

\* bit i of the unsigned char m
Bit(m, i) == (m \div (2 ^ i)) % 2
\* m | (1 << i)
SetBit(m, i) == IF Bit(m, i) = 1 THEN m ELSE m + 2 ^ i
\* m & ~(1 << i)
ClearBit(m, i) == IF Bit(m, i) = 1 THEN m - 2 ^ i ELSE m

-----------------------------------------------------------------------------
(* Publishing replies *)

\* a field the format string does not write
Absent == <<"(absent)">>

\* the argument vasprintf puts into the placeholder of field: placeholders take
\* the arguments in their order, whatever the caller meant them to be
Arg(format, args, field) ==
    LET at == {i \in 1..Len(format.holes) : format.holes[i] = field} IN
    IF at = {} THEN Absent ELSE args[CHOOSE i \in at : TRUE]

\* replyWith(topic, format, ...): the envelope published on topic
replyWith(topic, format, args) ==
    [topic    |-> topic,
     msgId    |-> Arg(format, args, "msgId"),
     correlId |-> Arg(format, args, "correlId"),
     key      |-> format.key,
     value    |-> IF format.text = Absent THEN Arg(format, args, "value") ELSE format.text,
     cmd      |-> Arg(format, args, "cmd"),
     levels   |-> <<>>,
     closing  |-> IF "closing" \in DOMAIN format THEN format.closing ELSE <<"}">>]

\* the format strings of the daemon: the fields written through a placeholder, in
\* the order of the placeholders, the literal payload, and what the format
\* writes after the payload where that is not the closing brace alone
FmtOk == [holes |-> <<"msgId", "correlId">>, key |-> "result", text |-> <<"ok">>]
FmtFailed == [holes |-> <<"msgId", "correlId">>, key |-> "result", text |-> <<"failed">>]
FmtAccepted == [holes |-> <<"msgId", "correlId">>, key |-> "accepted", text |-> <<"true">>]
FmtAmountMissing ==
    [holes |-> <<"correlId">>, key |-> "error",
     text |-> <<"property 'amount' missing or not a number">>]
FmtChannelsMissing ==
    [holes |-> <<"correlId">>, key |-> "error",
     text |-> <<"property 'channels' missing or not a string">>]
FmtError == [holes |-> <<"correlId", "value">>, key |-> "error", text |-> Absent]
FmtLevels == [holes |-> <<"correlId", "value">>, key |-> "levels", text |-> Absent]
\* "{\"correlId\":\"%s\",\"version\":\"%s\"]}"
FmtVersion ==
    [holes |-> <<"correlId", "value">>, key |-> "version", text |-> Absent,
     closing |-> <<"]", "}">>]
FmtReason == [holes |-> <<"correlId", "value", "code">>, key |-> "reason", text |-> Absent]
FmtReasonUndefined ==
    [holes |-> <<"correlId", "code">>, key |-> "reason", text |-> <<"undefined">>]
FmtTimeout == [holes |-> <<>>, key |-> "timeout", text |-> <<"last reject note">>]
FmtParseError ==
    [holes |-> <<"reason", "line">>, key |-> "error", text |-> <<"could not parse json">>]
FmtMsgIdMissing ==
    [holes |-> <<>>, key |-> "error", text |-> <<"property 'msgId' missing or not a string">>]
\* the 'cmd' error without the placeholder of correlId: what C28 must tell from
\* the format
FmtCmdMissingUncorrelated ==
    [holes |-> <<>>, key |-> "error", text |-> <<"property 'cmd' missing or not a string">>]
FmtCmdMissing ==
    [holes |-> <<"correlId">>, key |-> "error",
     text |-> <<"property 'cmd' missing or not a string">>]
FmtHardwareUnavailable ==
    [holes |-> <<"correlId">>, key |-> "error", text |-> <<"hardware unavailable">>]
FmtUnknownCommand ==
    [holes |-> <<"correlId", "cmd">>, key |-> "error", text |-> <<"unknown command">>]

replyOk(topic, responseMsgId, msgId) == replyWith(topic, FmtOk, <<responseMsgId, msgId>>)
replyFailed(topic, responseMsgId, msgId) == replyWith(topic, FmtFailed, <<responseMsgId, msgId>>)
replyAccepted(topic, responseMsgId, msgId) ==
    replyWith(topic, FmtAccepted, <<responseMsgId, msgId>>)

-----------------------------------------------------------------------------
(* Command handlers.  A handler gets the command structure cmd, the state st *)
(* it reads ([inhibits: cmd.device's channelInhibits, signal:                *)
(* receivedSignal]) and hw, what the hardware and the C runtime do during    *)
(* this run ([res1, res2: the results of its first and second exchange,      *)
(* data1: ResponseData[1] after the exchange, ub: the outcome of its         *)
(* undefined behaviour]); it yields what it did.                             *)

Effect(repliesOut, exchangesOut, inhibits, signal, crash) ==
    [replies |-> repliesOut, exchanges |-> exchangesOut, inhibits |-> inhibits,
     signal |-> signal, crash |-> crash]

\* nothing published, nothing sent, nothing changed
NoEffect(st) == Effect(<<>>, <<>>, st.inhibits, st.signal, 0)

\* a reply and nothing else
ReplyOnly(st, reply) == Effect(<<reply>>, <<>>, st.inhibits, st.signal, 0)

\* one exchange, then a reply
ExchangeAndReply(st, exchange, reply) ==
    Effect(<<reply>>, <<exchange>>, st.inhibits, st.signal, 0)

handleQuit(cmd, st) ==
    Effect(<<replyOk(cmd.responseTopic, cmd.responseMsgId, cmd.msgId)>>, <<>>,
           st.inhibits, 1, 0)

handleEmpty(cmd, st, hw) ==
    ExchangeAndReply(st, Exchange(cmd.device, "empty", 0, 0, hw.res1),
                     replyAccepted(cmd.responseTopic, cmd.responseMsgId, cmd.msgId))

\* handleSmartEmpty calling mc_ssp_empty like handleEmpty: what C15 must tell
\* from the handler
SmartEmptyAsEmpty(cmd, st, hw) ==
    ExchangeAndReply(st, Exchange(cmd.device, "empty", 0, 0, hw.res1),
                     replyAccepted(cmd.responseTopic, cmd.responseMsgId, cmd.msgId))

handleSmartEmpty(cmd, st, hw) ==
    ExchangeAndReply(st, Exchange(cmd.device, "smart_empty", 0, 0, hw.res1),
                     replyAccepted(cmd.responseTopic, cmd.responseMsgId, cmd.msgId))

handleEnable(cmd, st, hw) ==
    ExchangeAndReply(st, Exchange(cmd.device, "enable", 0, 0, hw.res1),
                     replyAccepted(cmd.responseTopic, cmd.responseMsgId, cmd.msgId))

handleDisable(cmd, st, hw) ==
    ExchangeAndReply(st, Exchange(cmd.device, "disable", 0, 0, hw.res1),
                     replyAccepted(cmd.responseTopic, cmd.responseMsgId, cmd.msgId))

\* PayoutError with the switch counting its cases from 0: what C11 must tell
\* from the handlers
PayoutErrorFromZero(data1) ==
    CASE data1 = 0 -> <<"not enough value in smart payout">>
      [] data1 = 1 -> <<"can't pay exact amount">>
      [] data1 = 2 -> <<"smart payout busy">>
      [] data1 = 3 -> <<"smart payout disabled">>
      [] OTHER -> <<"unknown">>

\* the error text handlePayout and handleFloat choose by ResponseData[1]
PayoutError(data1) ==
    CASE data1 = 1 -> <<"not enough value in smart payout">>
      [] data1 = 2 -> <<"can't pay exact amount">>
      [] data1 = 3 -> <<"smart payout busy">>
      [] data1 = 4 -> <<"smart payout disabled">>
      [] OTHER -> <<"unknown">>

\* handlePayout and handleFloat, which differ in the operation sent.  Both read
\* cmd->message, which cbOnRequestMessage never sets: strstr on that pointer
\* faults ("crash") or finds the pattern or not (hw.ub).
PayoutOrFloat(cmd, st, hw, op) ==
    IF hw.ub = "crash" THEN Effect(<<>>, <<>>, st.inhibits, st.signal, StatusSegv)
    ELSE
        LET payoutOption == IF hw.ub = "found" THEN OptionDo ELSE OptionTest
            jAmount == json_object_get(cmd.jsonMessage, <<"amount">>)
        IN  IF ~json_is_number(jAmount)
            THEN ReplyOnly(st, replyWith(cmd.responseTopic, FmtAmountMissing,
                                         <<cmd.responseMsgId, cmd.msgId>>))
            ELSE
                LET amount == json_number_value(jAmount)
                    x == WithResponseData(
                            Exchange(cmd.device, op, amount, payoutOption, hw.res1), hw.data1)
                IN  IF hw.res1 # "OK"
                    THEN ExchangeAndReply(st, x,
                            replyWith(cmd.responseTopic, FmtError,
                                      <<cmd.msgId, PayoutError(hw.data1)>>))
                    ELSE ExchangeAndReply(st, x,
                            replyOk(cmd.responseTopic, cmd.responseMsgId, cmd.msgId))

handlePayout(cmd, st, hw) == PayoutOrFloat(cmd, st, hw, "payout")

handleFloat(cmd, st, hw) == PayoutOrFloat(cmd, st, hw, "float")

\* SetRequested with a ninth test that takes "9" for channel 1: what C10 must
\* tell from the eight tests of the handler
SetRequestedNine(channels, mask, i) ==
    LET WithDigit(m, d) == IF StrStr(channels, <<Digits[d + 1]>>) THEN SetBit(m, (d - 1) % 8)
                           ELSE m
        m1 == WithDigit(mask, 1)
        m2 == WithDigit(m1, 2)
        m3 == WithDigit(m2, 3)
        m4 == WithDigit(m3, 4)
        m5 == WithDigit(m4, 5)
        m6 == WithDigit(m5, 6)
        m7 == WithDigit(m6, 7)
        m8 == WithDigit(m7, 8)
    IN  WithDigit(m8, 9)

\* the eight tests "if (strstr(channels, "i") != NULL) mask |= 1 << (i - 1)",
\* from test i on
RECURSIVE SetRequested(_, _, _)
SetRequested(channels, mask, i) ==
    IF i > 8 THEN mask
    ELSE SetRequested(channels,
                      IF StrStr(channels, <<Digits[i + 1]>>) THEN SetBit(mask, i - 1) ELSE mask,
                      i + 1)

\* the eight tests "if (strstr(channels, "i") != NULL) mask &= ~(1 << (i - 1))",
\* from test i on
RECURSIVE ClearRequested(_, _, _)
ClearRequested(channels, mask, i) ==
    IF i > 8 THEN mask
    ELSE ClearRequested(channels,
                        IF StrStr(channels, <<Digits[i + 1]>>) THEN ClearBit(mask, i - 1) ELSE mask,
                        i + 1)

\* SendAndStoreInhibits without the assignment to device->channelInhibits: what
\* C7 must tell from the handlers
SendInhibitsOnly(cmd, st, hw, currentChannelInhibits) ==
    LET x == Exchange(cmd.device, "set_inhibits", currentChannelInhibits, 255, hw.res1) IN
    Effect(<<IF hw.res1 = "OK"
             THEN replyOk(cmd.responseTopic, cmd.responseMsgId, cmd.msgId)
             ELSE replyFailed(cmd.responseTopic, cmd.responseMsgId, cmd.msgId)>>,
           <<x>>, st.inhibits, st.signal, 0)

\* SendAndStoreInhibits with the assignment moved before the test of the
\* result: what C8 must tell from the handlers
StoreThenSendInhibits(cmd, st, hw, currentChannelInhibits) ==
    LET x == Exchange(cmd.device, "set_inhibits", currentChannelInhibits, 255, hw.res1) IN
    Effect(<<IF hw.res1 = "OK"
             THEN replyOk(cmd.responseTopic, cmd.responseMsgId, cmd.msgId)
             ELSE replyFailed(cmd.responseTopic, cmd.responseMsgId, cmd.msgId)>>,
           <<x>>, currentChannelInhibits, st.signal, 0)

\* the tail of handleEnableChannels and handleDisableChannels: send the new mask
\* and keep it when the device accepts it
SendAndStoreInhibits(cmd, st, hw, currentChannelInhibits) ==
    LET highChannels == 255
        x == Exchange(cmd.device, "set_inhibits", currentChannelInhibits, highChannels, hw.res1)
    IN  IF hw.res1 = "OK"
        THEN Effect(<<replyOk(cmd.responseTopic, cmd.responseMsgId, cmd.msgId)>>, <<x>>,
                    currentChannelInhibits, st.signal, 0)
        ELSE Effect(<<replyFailed(cmd.responseTopic, cmd.responseMsgId, cmd.msgId)>>, <<x>>,
                    st.inhibits, st.signal, 0)

handleEnableChannels(cmd, st, hw) ==
    LET jChannels == json_object_get(cmd.jsonMessage, <<"channels">>) IN
    IF ~json_is_string(jChannels)
    THEN ReplyOnly(st, replyWith(cmd.responseTopic, FmtChannelsMissing,
                                 <<cmd.responseMsgId, cmd.msgId>>))
    ELSE SendAndStoreInhibits(cmd, st, hw,
            SetRequested(json_string_value(jChannels), st.inhibits, 1))

handleDisableChannels(cmd, st, hw) ==
    LET jChannels == json_object_get(cmd.jsonMessage, <<"channels">>) IN
    IF ~json_is_string(jChannels)
    THEN ReplyOnly(st, replyWith(cmd.responseTopic, FmtChannelsMissing,
                                 <<cmd.responseMsgId, cmd.msgId>>))
    ELSE SendAndStoreInhibits(cmd, st, hw,
            ClearRequested(json_string_value(jChannels), st.inhibits, 1))

\* handleInhibitChannels done the way of handleDisableChannels, from the cached
\* mask and stored: what C9 must tell from the handler
InhibitFromCachedMask(cmd, st, hw) ==
    LET jChannels == json_object_get(cmd.jsonMessage, <<"channels">>) IN
    IF ~json_is_string(jChannels)
    THEN ReplyOnly(st, replyWith(cmd.responseTopic, FmtChannelsMissing,
                                 <<cmd.responseMsgId, cmd.msgId>>))
    ELSE SendAndStoreInhibits(cmd, st, hw,
            ClearRequested(json_string_value(jChannels), st.inhibits, 1))

\* handleInhibitChannels keeping the mask it sent as the cached mask when the
\* device accepts it: what C40 must tell from the handler
InhibitStoringSentMask(cmd, st, hw) ==
    LET jChannels == json_object_get(cmd.jsonMessage, <<"channels">>) IN
    IF ~json_is_string(jChannels)
    THEN ReplyOnly(st, replyWith(cmd.responseTopic, FmtChannelsMissing,
                                 <<cmd.responseMsgId, cmd.msgId>>))
    ELSE
        LET lowChannels == ClearRequested(json_string_value(jChannels), 255, 1)
            x == Exchange(cmd.device, "set_inhibits", lowChannels, 255, hw.res1)
        IN  IF hw.res1 = "OK"
            THEN Effect(<<replyOk(cmd.responseTopic, cmd.responseMsgId, cmd.msgId)>>, <<x>>,
                        lowChannels, st.signal, IF hw.ub = "abort" THEN StatusAbort ELSE 0)
            ELSE Effect(<<replyFailed(cmd.responseTopic, cmd.responseMsgId, cmd.msgId)>>,
                        <<x>>, st.inhibits, st.signal,
                        IF hw.ub = "abort" THEN StatusAbort ELSE 0)

\* handleInhibitChannels ends with free(channels) on the buffer the JSON value
\* owns, which json_decref frees again: the second free goes unnoticed or aborts
\* the process (hw.ub), after the reply has been published.
handleInhibitChannels(cmd, st, hw) ==
    LET jChannels == json_object_get(cmd.jsonMessage, <<"channels">>) IN
    IF ~json_is_string(jChannels)
    THEN ReplyOnly(st, replyWith(cmd.responseTopic, FmtChannelsMissing,
                                 <<cmd.responseMsgId, cmd.msgId>>))
    ELSE
        LET lowChannels == ClearRequested(json_string_value(jChannels), 255, 1)
            highChannels == 255
            x == Exchange(cmd.device, "set_inhibits", lowChannels, highChannels, hw.res1)
            reply == IF hw.res1 = "OK"
                     THEN replyOk(cmd.responseTopic, cmd.responseMsgId, cmd.msgId)
                     ELSE replyFailed(cmd.responseTopic, cmd.responseMsgId, cmd.msgId)
        IN  Effect(<<reply>>, <<x>>, st.inhibits, st.signal,
                   IF hw.ub = "abort" THEN StatusAbort ELSE 0)

\* mc_ssp_set_denomination_level(sspC, amount, level, cc): the low two bytes of
\* level go into the level field (p1), the four bytes of the int amount into the
\* value field (p2)
mc_ssp_set_denomination_level(device, amount, level, res) ==
    Exchange(device, "set_denomination_level", level % 65536, amount, res)

handleSetDenominationLevels(cmd, st, hw) ==
    LET jLevel == json_object_get(cmd.jsonMessage, <<"level">>)
        jAmount == json_object_get(cmd.jsonMessage, <<"amount">>)
        amount == json_number_value(jLevel)
        level == json_number_value(jAmount)
        first == mc_ssp_set_denomination_level(cmd.device, amount, 0, hw.res1)
        resLast == IF level > 0 THEN hw.res2 ELSE hw.res1
        last == mc_ssp_set_denomination_level(cmd.device, amount, level, resLast)
        reply == IF resLast = "OK"
                 THEN replyOk(cmd.responseTopic, cmd.responseMsgId, cmd.msgId)
                 ELSE replyFailed(cmd.responseTopic, cmd.responseMsgId, cmd.msgId)
    IN  Effect(<<reply>>, IF level > 0 THEN <<first, last>> ELSE <<last>>,
               st.inhibits, st.signal, 0)

\* the payload texts the device data of this run are formatted to
LevelsText == <<"(levels)">>

\* the character of the byte b, for the bytes the model draws
Letters ==
    <<"A", "B", "C", "D", "E", "F", "G", "H", "I", "J", "K", "L", "M",
      "N", "O", "P", "Q", "R", "S", "T", "U", "V", "W", "X", "Y", "Z">>
AsciiOf(b) ==
    IF b \in 48..57 THEN Digits[b - 47]
    ELSE IF b \in 65..90 THEN Letters[b - 64]
    ELSE "?"

\* the text printf("%s") writes for the bytes of a buffer: up to the first 0
RECURSIVE CString(_)
CString(bytes) ==
    IF bytes = <<>> \/ Head(bytes) = 0 THEN <<>>
    ELSE <<AsciiOf(Head(bytes))>> \o CString(Tail(bytes))

\* the buffer char version[100] = {0} after mc_ssp_get_firmware_version (n = 16)
\* or mc_ssp_get_dataset_version (n = 8): the first n bytes of ResponseData[1..]
\* and a 0 when the response was OK, untouched otherwise
VersionBuffer(res, data, n) ==
    IF res = "OK" THEN [i \in 1..(n + 1) |-> IF i <= n THEN data[i] ELSE 0]
    ELSE <<0>>

\* an int built from four bytes, the lowest first, as the build converts the
\* unsigned sum to int: the sign bit is the top bit of the fourth byte
IntOfBytes(b0, b1, b2, b3) ==
    LET top == (b3 \div 128) * 1073741824 IN
    (b0 + b1 * 256 + b2 * 65536 + (b3 % 128) * 16777216 - top) - top

\* the counter j (from 0) of the response: 2 bytes level, 4 bytes value, 3
\* bytes country code, after the byte with the number of counters
Counter(data, j) ==
    LET at(k) == data[1 + 9 * j + k] IN
    [level |-> IntOfBytes(at(1), at(2), 0, 0),
     value |-> IntOfBytes(at(3), at(4), at(5), at(6)),
     cc    |-> <<at(7), at(8), at(9)>>]

\* mc_ssp_get_all_levels: the entries it formats from ResponseData[1..]
mc_ssp_get_all_levels(data) == [j \in 1..data[1] |-> Counter(data, j - 1)]

\* handleGetAllLevels.  After a timeout mc_ssp_get_all_levels has returned
\* before it set json, and the reply is formatted from the null pointer.
handleGetAllLevels(cmd, st, hw) ==
    LET x == WithResponse(Exchange(cmd.device, "get_all_levels", 0, 0, hw.res1), hw.data)
        reply == replyWith(cmd.responseTopic, FmtLevels, <<cmd.msgId, LevelsText>>)
    IN  IF hw.res1 = "TIMEOUT"
        THEN ExchangeAndReply(st, x, [reply EXCEPT !.value = <<"(null)">>])
        ELSE ExchangeAndReply(st, x,
                [reply EXCEPT !.levels = mc_ssp_get_all_levels(hw.data)])

handleGetFirmwareVersion(cmd, st, hw) ==
    LET firmwareVersion == VersionBuffer(hw.res1, hw.data, 16) IN
    ExchangeAndReply(st,
        WithResponse(Exchange(cmd.device, "get_firmware_version", 0, 0, hw.res1), hw.data),
        replyWith(cmd.responseTopic, FmtVersion, <<cmd.msgId, CString(firmwareVersion)>>))

handleGetDatasetVersion(cmd, st, hw) ==
    LET datasetVersion == VersionBuffer(hw.res1, hw.data, 8) IN
    ExchangeAndReply(st,
        WithResponse(Exchange(cmd.device, "get_dataset_version", 0, 0, hw.res1), hw.data),
        replyWith(cmd.responseTopic, FmtVersion, <<cmd.msgId, CString(datasetVersion)>>))

\* the reasons of handleLastRejectNote, for the codes 0x00 .. 0x1C
RejectReasons ==
    << "note accepted", "note length incorrect", "undisclosed (reject reason 2)",
       "undisclosed (reject reason 3)", "undisclosed (reject reason 4)",
       "undisclosed (reject reason 5)", "channel inhibited", "second note inserted",
       "undisclosed (reject reason 8)", "note recognised in more than one channel",
       "undisclosed (reject reason 10)", "note too long", "undisclosed (reject reason 12)",
       "mechanism slow/stalled", "strimming attempt detected", "fraud channel reject",
       "no notes inserted", "peak detect fail", "twisted note detected", "escrow time-out",
       "bar code scan fail", "rear sensor 2 fail", "slot fail 1", "slot fail 2",
       "lens over-sample", "width detect fail", "short note detected", "note payout",
       "unable to stack note" >>

handleLastRejectNote(cmd, st, hw) ==
    LET x == WithResponseData(Exchange(cmd.device, "last_reject_note", 0, 0, hw.res1),
                              hw.data1)
        reasonCode == hw.data1
    IN  IF hw.res1 = "OK"
        THEN IF reasonCode < Len(RejectReasons)
             THEN ExchangeAndReply(st, x,
                     replyWith(cmd.responseTopic, FmtReason,
                               <<cmd.msgId, <<RejectReasons[reasonCode + 1]>>, reasonCode>>))
             ELSE ExchangeAndReply(st, x,
                     replyWith(cmd.responseTopic, FmtReasonUndefined, <<cmd.msgId, reasonCode>>))
        ELSE ExchangeAndReply(st, x, replyWith(cmd.responseTopic, FmtTimeout, <<>>))

handleChannelSecurityData(cmd, st, hw) ==
    Effect(<<>>, <<Exchange(cmd.device, "channel_security_data", 0, 0, hw.res1)>>,
           st.inhibits, st.signal, 0)

-----------------------------------------------------------------------------
(* The request callback *)

\* uuid_generate_time_safe and uuid_unparse_lower: the msgId of the response
GeneratedUuid == <<"(uuid)">>

\* the if / else-if chain of cbOnRequestMessage for a daemon with hardware
Dispatch(message, cmd, st, hw) ==
    IF isCommand(message, <<"empty">>) THEN handleEmpty(cmd, st, hw)
    ELSE IF isCommand(message, <<"smart-empty">>) THEN handleSmartEmpty(cmd, st, hw)
    ELSE IF isCommand(message, <<"enable">>) THEN handleEnable(cmd, st, hw)
    ELSE IF isCommand(message, <<"disable">>) THEN handleDisable(cmd, st, hw)
    ELSE IF isCommand(message, <<"enable-channels">>) THEN handleEnableChannels(cmd, st, hw)
    ELSE IF isCommand(message, <<"disable-channels">>) THEN handleDisableChannels(cmd, st, hw)
    ELSE IF isCommand(message, <<"inhibit-channels">>) THEN handleInhibitChannels(cmd, st, hw)
    ELSE IF isCommand(message, <<"test-float">>) \/ isCommand(message, <<"do-float">>)
        THEN handleFloat(cmd, st, hw)
    ELSE IF isCommand(message, <<"test-payout">>) \/ isCommand(message, <<"do-payout">>)
        THEN handlePayout(cmd, st, hw)
    ELSE IF isCommand(message, <<"get-firmware-version">>)
        THEN handleGetFirmwareVersion(cmd, st, hw)
    ELSE IF isCommand(message, <<"get-dataset-version">>)
        THEN handleGetDatasetVersion(cmd, st, hw)
    ELSE IF isCommand(message, <<"channel-security-data">>)
        THEN handleChannelSecurityData(cmd, st, hw)
    ELSE IF isCommand(message, <<"get-all-levels">>) THEN handleGetAllLevels(cmd, st, hw)
    ELSE IF isCommand(message, <<"set-denomination-level">>)
        THEN handleSetDenominationLevels(cmd, st, hw)
    ELSE IF isCommand(message, <<"last-reject-note">>) THEN handleLastRejectNote(cmd, st, hw)
    ELSE ReplyOnly(st, replyWith(cmd.responseTopic, FmtUnknownCommand,
                                 <<cmd.msgId, message, cmd.command>>))

\* e1, then e2, which started from the state e1 left
Then(e1, e2) ==
    Effect(e1.replies \o e2.replies, e1.exchanges \o e2.exchanges,
           e2.inhibits, e2.signal, e2.crash)

\* the device and the response topic cbOnRequestMessage picks for a topic
DeviceOf(topic) ==
    IF topic = "validator-request" THEN "validator"
    ELSE IF topic = "hopper-request" THEN "hopper"
    ELSE "none"

\* the response topics exchanged: what C33 must tell from the callback
ResponseTopicCrossed(topic) ==
    IF topic = "validator-request" THEN "hopper-response"
    ELSE IF topic = "hopper-request" THEN "validator-response"
    ELSE "none"

ResponseTopic(topic) ==
    IF topic = "validator-request" THEN "validator-response"
    ELSE IF topic = "hopper-request" THEN "hopper-response"
    ELSE "none"

\* cbOnRequestMessage for a message on topic; available is m->deviceAvailable,
\* st holds the channelInhibits of the topic's device and receivedSignal
cbOnRequestMessage(topic, message, available, st, hw) ==
    LET responseTopic == ResponseTopic(topic)
        jsonMessage == json_loads(message)
        jMsgId == json_object_get(jsonMessage, <<"msgId">>)
        jCmd == json_object_get(jsonMessage, <<"cmd">>)
        cmd == [jsonMessage   |-> jsonMessage,
                command       |-> json_string_value(jCmd),
                msgId         |-> json_string_value(jMsgId),
                responseMsgId |-> GeneratedUuid,
                responseTopic |-> responseTopic,
                device        |-> DeviceOf(topic)]
        AfterWait(eff) == [eff EXCEPT !.exchanges = WaitedFirst(eff.exchanges)]
    IN  AfterWait(
        IF responseTopic = "none" THEN NoEffect(st)
        ELSE IF jsonMessage = JNull
            THEN ReplyOnly(st, replyWith(responseTopic, FmtParseError,
                                         <<<<"(error text)">>, <<"(error line)">>>>))
        ELSE IF ~json_is_string(jMsgId)
            THEN ReplyOnly(st, replyWith(responseTopic, FmtMsgIdMissing, <<>>))
        ELSE IF ~json_is_string(jCmd)
            THEN ReplyOnly(st, replyWith(responseTopic, FmtCmdMissing, <<cmd.msgId>>))
        ELSE
            LET quit == IF isCommand(message, <<"quit">>) THEN handleQuit(cmd, st)
                        ELSE NoEffect(st)
                st2 == [inhibits |-> quit.inhibits, signal |-> quit.signal]
            IN  IF ~available
                THEN Then(quit, ReplyOnly(st2, replyWith(responseTopic, FmtHardwareUnavailable,
                                                         <<cmd.msgId>>)))
                ELSE Then(quit, Dispatch(message, cmd, st2, hw)))

-----------------------------------------------------------------------------
(* Polling *)

\* an event of a poll response
PollEvent(code) == [event |-> code, data1 |-> 0, cc |-> ""]

\* an event of a poll response with its data value and its currency code
DataEvent(code, data1, cc) == [event |-> code, data1 |-> data1, cc |-> cc]

\* publishHopperEvent / publishValidatorEvent
EventTopic(device) == IF device = "hopper" THEN "hopper-event" ELSE "validator-event"
\* a published event: its "event" and, where the format has them, its "id",
\* "amount", "channel" (<<>> where the format has none), "cc" and "error"
PublishedWith(device, name, id, amount, channel, cc, error) ==
    [topic |-> EventTopic(device), event |-> name, id |-> id, amount |-> amount,
     channel |-> channel, cc |-> cc, error |-> error]
Published(device, name, id) == PublishedWith(device, name, id, <<>>, <<>>, "", "")

\* device->sspSetupReq.ChannelData as the read of entry data1 - 1 sees it: the
\* value of channel data1 of the report, and for an index outside the report
\* what the memory there holds (stray)
ChannelData(report, data1, stray) ==
    [k \in {data1} |-> IF k \in 1..Len(report) THEN report[k] ELSE stray]

\* the amount of channel data1 without the factor 100: what C23 must tell from
\* the handler
ChannelAmountUnscaled(report, data1) == report[data1]

\* the amount the validator's handler publishes for channel data1 of its report
ChannelAmount(report, data1) == report[data1] * 100

\* the error texts of the calibration failures NO_FAILUE .. CHECKSUM_ERROR
CalibrationErrors ==
    <<"no error", "sensor flap", "sensor exit", "sensor coil 1", "sensor coil 2",
      "not initialized", "checksum error">>

\* the calibration failure COMMAND_RECAL
CommandRecal == 7

PollEffect(eventsOut, exchangesOut, exit) ==
    [events |-> eventsOut, exchanges |-> exchangesOut, exit |-> exit]

\* the event handlers without the exit after a failed host_protocol: what C18
\* must tell from the handlers
EventHandlerGoingOn(device, batch, i, in) ==
    LET Handle(e) ==
            IF e.event = "RESET"
            THEN PollEffect(<<Published(device, "unit reset", "")>>,
                            <<Exchange(device, "host_protocol", 6, 0, in.hp)>>, 0)
            ELSE IF e.event = "DISABLED"
                THEN PollEffect(<<Published(device, "disabled", "")>>, <<>>, 0)
            ELSE IF e.event = "JAMMED" /\ device = "hopper"
                THEN PollEffect(<<Published(device, "jammed", "")>>, <<>>, 0)
            ELSE PollEffect(<<Published(device, "unknown", e.event)>>, <<>>, 0)
        all == [k \in 1..Len(batch) |-> Handle(batch[k])]
        Events[k \in 0..Len(batch)] ==
            IF k = 0 THEN <<>> ELSE Events[k - 1] \o all[k].events
        Exchanges[k \in 0..Len(batch)] ==
            IF k = 0 THEN <<>> ELSE Exchanges[k - 1] \o all[k].exchanges
    IN  PollEffect(Events[Len(batch)], Exchanges[Len(batch)], 0)

\* hopperEventHandler and validatorEventHandler on the events of a batch from
\* event i on, for the event codes this model draws: RESET, DISABLED, READ,
\* CREDIT, CALIBRATION_FAIL, the codes only the hopper's handler knows (JAMMED,
\* DISPENSING, DISPENSED, CASHBOX_PAID, COIN_CREDIT) and a code neither handler
\* knows.  The validator reads the value of a channel in device->sspSetupReq.
RECURSIVE eventHandlerFn(_, _, _, _)
eventHandlerFn(device, batch, i, in) ==
    IF i > Len(batch) THEN PollEffect(<<>>, <<>>, 0)
    ELSE
        LET e == batch[i]
            rest == eventHandlerFn(device, batch, i + 1, in)
            publish(name, id) ==
                PollEffect(<<Published(device, name, id)>> \o rest.events,
                           rest.exchanges, rest.exit)
            publishData(name, amount, channel, cc) ==
                PollEffect(<<PublishedWith(device, name, "", amount, channel, cc, "")>>
                           \o rest.events, rest.exchanges, rest.exit)
        IN  IF e.event = "RESET" THEN
                LET x == Exchange(device, "host_protocol", 6, 0, in.hp) IN
                IF in.hp # "OK"
                THEN PollEffect(<<Published(device, "unit reset", "")>>, <<x>>, 3)
                ELSE PollEffect(<<Published(device, "unit reset", "")>> \o rest.events,
                                <<x>> \o rest.exchanges, rest.exit)
            ELSE IF e.event = "DISABLED" THEN publish("disabled", "")
            ELSE IF e.event = "JAMMED" /\ device = "hopper" THEN publish("jammed", "")
            ELSE IF e.event = "READ" THEN
                IF e.data1 > 0
                THEN IF device = "hopper"
                     THEN publishData("read", <<>>, <<e.data1>>, "")
                     ELSE publishData("read",
                            <<ChannelAmount(ChannelData(sspSetupReq[device], e.data1, in.stray),
                                            e.data1)>>,
                            <<e.data1>>, "")
                ELSE publish("reading", "")
            ELSE IF e.event = "CREDIT" THEN
                IF device = "hopper"
                THEN publishData("credit", <<>>, <<e.data1>>, e.cc)
                ELSE publishData("credit",
                        <<ChannelAmount(ChannelData(sspSetupReq[device], e.data1, in.stray),
                                        e.data1)>>,
                        <<e.data1>>, "")
            ELSE IF e.event = "DISPENSING" /\ device = "hopper"
                THEN publishData("dispensing", <<e.data1>>, <<>>, "")
            ELSE IF e.event = "DISPENSED" /\ device = "hopper"
                THEN publishData("dispensed", <<e.data1>>, <<>>, "")
            ELSE IF e.event = "CASHBOX_PAID" /\ device = "hopper"
                THEN publishData("cashbox paid", <<e.data1>>, <<>>, e.cc)
            ELSE IF e.event = "COIN_CREDIT" /\ device = "hopper"
                THEN publishData("coin credit", <<e.data1>>, <<>>, e.cc)
            ELSE IF e.event = "CALIBRATION_FAIL" THEN
                IF e.data1 < Len(CalibrationErrors)
                THEN PollEffect(
                        <<PublishedWith(device, "calibration fail", "", <<>>, <<>>, "",
                                        CalibrationErrors[e.data1 + 1])>> \o rest.events,
                        rest.exchanges, rest.exit)
                ELSE IF e.data1 = CommandRecal
                THEN PollEffect(<<Published(device, "recalibrating", "")>> \o rest.events,
                                <<Exchange(device, "run_calibration", 0, 0, in.hp)>>
                                \o rest.exchanges, rest.exit)
                ELSE rest
            ELSE publish("unknown", e.event)

\* mcSspPollDevice negotiating the key after a timeout as well: what C17 must
\* tell from the function
PollRenegotiatingAlways(device, in) ==
    LET x == Waited(Exchange(device, "poll", 0, 0, in.res)) IN
    IF in.res \in {"TIMEOUT", "KEY_NOT_SET"}
        THEN PollEffect(<<>>, <<x, Exchange(device, "setup_encryption", 0, 0, in.enc)>>, 0)
    ELSE IF in.res # "OK" THEN PollEffect(<<>>, <<x>>, 0)
    ELSE LET h == eventHandlerFn(device, in.batch, 1, in) IN
         PollEffect(h.events, <<x>> \o h.exchanges, h.exit)

\* mcSspPollDevice; in is what the device does in this poll
mcSspPollDevice(device, in) ==
    LET x == Waited(Exchange(device, "poll", 0, 0, in.res)) IN
    IF in.res = "TIMEOUT" THEN PollEffect(<<>>, <<x>>, 0)
    ELSE IF in.res = "KEY_NOT_SET"
        THEN PollEffect(<<>>, <<x, Exchange(device, "setup_encryption", 0, 0, in.enc)>>, 0)
    ELSE IF in.res # "OK" THEN PollEffect(<<>>, <<x>>, 0)
    ELSE LET h == eventHandlerFn(device, in.batch, 1, in) IN
         PollEffect(h.events, <<x>> \o h.exchanges, h.exit)

\* cbOnPollEvent with its two calls exchanged, the validator first: what C16
\* must tell from the callback
PollValidatorFirst(available, inHopper, inValidator) ==
    IF ~available THEN PollEffect(<<>>, <<>>, 0)
    ELSE LET v == mcSspPollDevice("validator", inValidator) IN
         IF v.exit # 0 THEN v
         ELSE LET h == mcSspPollDevice("hopper", inHopper) IN
              PollEffect(v.events \o h.events, v.exchanges \o h.exchanges, h.exit)

\* cbOnPollEvent sending the validator's poll before the hopper has been dealt
\* with: what C27 must tell from the callback
PollInterleaved(available, inHopper, inValidator) ==
    IF ~available THEN PollEffect(<<>>, <<>>, 0)
    ELSE LET h == mcSspPollDevice("hopper", inHopper)
             v == mcSspPollDevice("validator", inValidator)
         IN  PollEffect(h.events \o v.events,
                        <<Head(h.exchanges), Head(v.exchanges)>>
                        \o Tail(h.exchanges) \o Tail(v.exchanges),
                        IF h.exit # 0 THEN h.exit ELSE v.exit)

\* cbOnPollEvent without its check of deviceAvailable: what C36 must tell from
\* the callback
PollWithoutHardware(available, inHopper, inValidator) ==
    LET h == mcSspPollDevice("hopper", inHopper) IN
    IF h.exit # 0 THEN h
    ELSE LET v == mcSspPollDevice("validator", inValidator) IN
         PollEffect(h.events \o v.events, h.exchanges \o v.exchanges, v.exit)

\* the body of cbOnPollEvent: the hopper, then the validator
PollBoth(available, inHopper, inValidator) ==
    IF ~available THEN PollEffect(<<>>, <<>>, 0)
    ELSE LET h == mcSspPollDevice("hopper", inHopper) IN
         IF h.exit # 0 THEN h
         ELSE LET v == mcSspPollDevice("validator", inValidator) IN
              PollEffect(h.events \o v.events, h.exchanges \o v.exchanges, v.exit)

-----------------------------------------------------------------------------
(* The inputs the model draws *)

Member(key, valueText, space) ==
    Quoted(<<key>>) \o <<":">> \o (IF space THEN <<" ">> ELSE <<>>) \o valueText

RECURSIVE JoinMembers(_)
JoinMembers(members) ==
    IF members = <<>> THEN <<>>
    ELSE IF Len(members) = 1 THEN members[1]
    ELSE members[1] \o <<",">> \o JoinMembers(Tail(members))

Object(members) == <<"{">> \o JoinMembers(members) \o <<"}">>

MsgIdA == Member("msgId", Quoted(<<"A">>), FALSE)
Cmd(c) == Member("cmd", Quoted(<<c>>), FALSE)
\* {"msgId":"A","cmd":"<c>"<, further members>}
Envelope(c, further) == Object(<<MsgIdA, Cmd(c)>> \o further)

SimpleCommands ==
    {"quit", "empty", "smart-empty", "enable", "disable", "get-firmware-version",
     "get-dataset-version", "channel-security-data", "get-all-levels", "last-reject-note"}
ChannelCommands == {"enable-channels", "disable-channels", "inhibit-channels"}
PayoutCommands == {"test-float", "do-float", "test-payout", "do-payout"}
RecognizedCommands ==
    SimpleCommands \cup ChannelCommands \cup PayoutCommands \cup {"set-denomination-level"}

RequestChannels == {<<>>, <<"1", "3", "5">>, <<"9">>, <<"0">>}

SimpleTexts == {Envelope(c, <<>>) : c \in SimpleCommands \cup {"levitate"}}

ChannelTexts ==
    {Envelope(c, <<Member("channels", Quoted(s), FALSE)>>) :
        c \in ChannelCommands, s \in RequestChannels}
    \cup {Envelope(c, <<>>) : c \in ChannelCommands}
    \cup {Envelope(c, <<Member("channels", <<"5">>, FALSE)>>) : c \in ChannelCommands}

PayoutTexts ==
    {Envelope(c, <<Member("amount", <<"1", "0", "0", "0">>, FALSE)>>) : c \in PayoutCommands}
    \cup {Envelope(c, <<>>) : c \in PayoutCommands}

DenominationTexts ==
    {Envelope("set-denomination-level",
              <<Member("level", <<l>>, FALSE), Member("amount", <<"1", "0", "0">>, FALSE)>>) :
        l \in {"0", "2"}}
    \cup {Envelope("set-denomination-level", <<>>)}

\* the same commands written or embedded differently
FormatTexts ==
    {Object(<<MsgIdA, Member("cmd", Quoted(<<c>>), TRUE)>>) : c \in {"quit", "empty"}}
    \cup {Envelope("levitate", <<Member("note", Object(<<Cmd("empty")>>), FALSE)>>),
          Envelope("empty", <<Member("note", Object(<<Cmd("quit")>>), FALSE)>>)}

\* cut-off text, no msgId, a number as msgId, no cmd, a number as cmd
MalformedTexts ==
    {<<"{", Quote, "msgId">>,
     Object(<<Cmd("empty")>>),
     Object(<<Member("msgId", <<"7">>, FALSE), Cmd("empty")>>),
     Object(<<MsgIdA>>),
     Object(<<MsgIdA, Member("cmd", <<"7">>, FALSE)>>)}

RequestTexts ==
    SimpleTexts \cup ChannelTexts \cup PayoutTexts \cup DenominationTexts
    \cup FormatTexts \cup MalformedTexts

\* every string of at most MaxChannelsLen digits
DigitStrings ==
    UNION {[1..n -> {Digits[d] : d \in 1..10}] : n \in 0..MaxChannelsLen}

DigitTexts ==
    {Envelope(c, <<Member("channels", Quoted(s), FALSE)>>) :
        c \in ChannelCommands, s \in DigitStrings}

RequestTopics == {"hopper-request", "validator-request"}

Hw(res1, res2, data1, ub) ==
    [res1 |-> res1, res2 |-> res2, data1 |-> data1, ub |-> ub, data |-> <<0>>]

\* hw with the bytes data in ResponseData[1..]
WithData(hw, data) == [hw EXCEPT !.data = data]

\* counters of a get_all_levels response: 258 coins of 100, 5 of 10000, and
\* none of a value whose fourth byte has its top bit set; the currency is EUR
CounterSamples ==
    [few |-> <<2, 1, 100, 0, 0, 0, 69, 85, 82>>,
     more |-> <<5, 0, 16, 39, 0, 0, 69, 85, 82>>,
     big |-> <<0, 0, 0, 0, 0, 128, 69, 85, 82>>]

\* the bytes drawn for ResponseData[1..] of a get_all_levels response
LevelsData ==
    {<<0>>, <<1>> \o CounterSamples.few, <<1>> \o CounterSamples.big,
     <<2>> \o CounterSamples.few \o CounterSamples.more,
     <<2>> \o CounterSamples.more \o CounterSamples.few}

\* the bytes drawn for ResponseData[1..] of the answer to a version command:
\* "NV02004141498000" and "EUR01610", followed by what the buffer held before
FirmwareBytes == <<78, 86, 48, 50, 48, 48, 52, 49, 52, 49, 52, 57, 56, 48, 48, 48, 90, 90>>
DatasetBytes == <<69, 85, 82, 48, 49, 54, 49, 48, 90, 90>>

\* the bytes drawn for ResponseData[1]
DataBytes == {0, 1, 2, 3, 4}

\* what hardware and runtime can do during the handling of message: only what
\* the handlers the message can reach read is varied
HwInputs(message, available) ==
    IF ~available THEN {Hw("OK", "OK", 0, "none")}
    ELSE IF \E c \in PayoutCommands : isCommand(message, <<c>>)
        THEN {Hw("OK", "OK", 0, ub) : ub \in {"crash", "found", "notfound"}}
             \cup {Hw(r, "OK", d, ub) :
                     r \in Results \ {"OK"}, d \in DataBytes, ub \in {"found", "notfound"}}
    ELSE IF isCommand(message, <<"set-denomination-level">>)
        THEN {Hw(r1, r2, 0, "none") : r1 \in Results, r2 \in Results}
    ELSE IF isCommand(message, <<"inhibit-channels">>)
        THEN {Hw(r, "OK", 0, ub) : r \in Results, ub \in {"none", "abort"}}
    ELSE IF isCommand(message, <<"get-all-levels">>)
        THEN {WithData(Hw("OK", "OK", 0, "none"), data) : data \in LevelsData}
             \cup {Hw(r, "OK", 0, "none") : r \in Results \ {"OK"}}
    ELSE IF isCommand(message, <<"get-firmware-version">>)
        THEN {WithData(Hw(r, "OK", 0, "none"), FirmwareBytes) : r \in Results}
    ELSE IF isCommand(message, <<"get-dataset-version">>)
        THEN {WithData(Hw(r, "OK", 0, "none"), DatasetBytes) : r \in Results}
    ELSE IF isCommand(message, <<"last-reject-note">>)
        THEN {Hw("OK", "OK", d, "none") : d \in {0, 6, 29}}
             \cup {Hw(r, "OK", 0, "none") : r \in Results \ {"OK"}}
    ELSE {Hw(r, "OK", 0, "none") : r \in Results}

PollBatches ==
    {<<>>, <<PollEvent("RESET")>>, <<PollEvent("DISABLED")>>,
     <<PollEvent("JAMMED"), PollEvent("RESET"), PollEvent("0x42")>>}

\* the answers a poll is given: the result of the poll, its events, the results
\* of host_protocol and setup_encryption, and what a read outside the channel
\* table finds
PollIn(res, batch, hp, enc) ==
    [res |-> res, batch |-> batch, hp |-> hp, enc |-> enc, stray |-> 0]

WithStray(in, stray) == [in EXCEPT !.stray = stray]

PollInputs ==
    {PollIn("TIMEOUT", <<>>, "OK", "OK"), PollIn("FAIL", <<>>, "OK", "OK")}
    \cup {PollIn("KEY_NOT_SET", <<>>, "OK", enc) : enc \in {"OK", "FAIL"}}
    \cup {PollIn("OK", b, hp, "OK") : b \in PollBatches, hp \in {"OK", "TIMEOUT"}}

\* the events with data of the event specification; READ and CREDIT name a
\* channel the reports of ValidatorReports hold
EventSamples ==
    {DataEvent("READ", k, "") : k \in 0..2}
    \cup {DataEvent("CREDIT", k, "EUR") : k \in 1..2}
    \cup {DataEvent(code, 500, "EUR") :
            code \in {"DISPENSING", "DISPENSED", "COIN_CREDIT", "CASHBOX_PAID"}}
    \cup {DataEvent("CALIBRATION_FAIL", sub, "") : sub \in 0..8}

\* READ and CREDIT events that name no channel (CREDIT with data1 = 0) or a
\* channel beyond those of some report
StraySamples ==
    {DataEvent("CREDIT", k, "EUR") : k \in {0, 3, 8}} \cup {DataEvent("READ", 3, "")}

\* what the memory around the channel table can hold
StrayValues == {0, 7}

EventInputs ==
    {PollIn("OK", <<e>>, hp, "OK") : e \in EventSamples, hp \in {"OK", "TIMEOUT"}}
    \cup {WithStray(PollIn("OK", <<e>>, "OK", "OK"), v) : e \in StraySamples, v \in StrayValues}
    \cup {PollIn("OK", <<DataEvent("DISPENSING", 500, "EUR"),
                         DataEvent("DISPENSED", 1000, "EUR")>>, "OK", "OK")}

\* the reports of the validator the event specification starts with (euro);
\* none when setup_request failed at startup
ValidatorReports == {<<>>, <<5, 10>>, <<10, 20, 50>>, <<5, 10, 20, 50, 100, 200, 500>>}

\* SIGINT and SIGTERM
Signals == {2, 15}

\* the values the build can leave in a channelInhibits nothing has written
UninitializedBytes == {0, 255}

\* the channel values the devices reported to setup_request at startup, in the
\* unit of the report (hopper: cent, validator: euro)
StartupReports == [hopper |-> <<10, 20>>, validator |-> <<5, 10>>]

-----------------------------------------------------------------------------
(* The daemon *)

\* the request of the callback that ran last: its topic, its text and
\* cmd.jsonMessage, what json_loads made of the text
NoRequest == [topic |-> "none", message |-> <<>>, jsonMessage |-> JNull]

\* main up to event_base_dispatch.  deviceAvailable is set when the serial
\* device could be opened; setup writes 0 to validator.channelInhibits only
\* then, and nothing writes hopper.channelInhibits.  setup adds the poll timer
\* unless it returned after a failed set_inhibits or enable_payout.
Init ==
    /\ deviceAvailable \in BOOLEAN
    /\ receivedSignal = 0
    /\ channelInhibits \in [Devices -> UninitializedBytes]
    /\ deviceAvailable => channelInhibits["validator"] = 0
    /\ loopExit = FALSE
    /\ pc = "loop"
    /\ exitCode = -1
    /\ callback = "none"
    /\ request = NoRequest
    /\ replies = <<>>
    /\ events = <<>>
    /\ exchanges = <<>>
    /\ inhibitsBefore = channelInhibits
    /\ polled = <<>>
    /\ sspSetupReq = StartupReports
    /\ pollArmed \in BOOLEAN
    /\ ~deviceAvailable => pollArmed

\* a message of texts arrives on a request topic and cbOnRequestMessage runs
OnRequest(texts) ==
    /\ pc = "loop"
    /\ \E topic \in RequestTopics, message \in texts :
         \E hw \in HwInputs(message, deviceAvailable) :
            LET device == DeviceOf(topic)
                st == [inhibits |-> channelInhibits[device], signal |-> receivedSignal]
            IN  \E eff \in {cbOnRequestMessage(topic, message, deviceAvailable, st, hw)} :
                /\ callback' = "request"
                /\ request' = [topic |-> topic, message |-> message,
                                jsonMessage |-> json_loads(message)]
                /\ replies' = eff.replies
                /\ exchanges' = eff.exchanges
                /\ events' = <<>>
                /\ inhibitsBefore' = channelInhibits
                /\ polled' = <<>>
                /\ channelInhibits' = [channelInhibits EXCEPT ![device] = eff.inhibits]
                /\ receivedSignal' = eff.signal
                /\ pc' = IF eff.crash # 0 THEN "exited" ELSE "callback"
                /\ exitCode' = IF eff.crash # 0 THEN eff.crash ELSE exitCode
    /\ UNCHANGED <<deviceAvailable, loopExit, sspSetupReq, pollArmed>>

OnRequestMessage == OnRequest(RequestTexts)

OnDigitRequest == OnRequest(DigitTexts)

\* the 1 s timer fires and cbOnPollEvent runs
OnPoll(inputs) ==
    /\ pc = "loop"
    /\ pollArmed
    /\ \E inHopper \in inputs, inValidator \in inputs :
         \E eff \in {PollBoth(deviceAvailable, inHopper, inValidator)} :
         /\ callback' = "poll"
         /\ request' = NoRequest
         /\ replies' = <<>>
         /\ exchanges' = eff.exchanges
         /\ events' = eff.events
         /\ inhibitsBefore' = channelInhibits
         /\ polled' = IF deviceAvailable THEN <<inHopper, inValidator>> ELSE <<>>
         /\ pc' = IF eff.exit # 0 THEN "exited" ELSE "callback"
         /\ exitCode' = IF eff.exit # 0 THEN eff.exit ELSE exitCode
    /\ UNCHANGED <<deviceAvailable, receivedSignal, channelInhibits, loopExit, sspSetupReq,
                   pollArmed>>

OnPollEvent == OnPoll(PollInputs)

OnEventPoll == OnPoll(EventInputs)

\* a message arrives on the topic metacash and cbOnMetacashMessage runs, which
\* is empty
cbOnMetacashMessage ==
    /\ pc = "loop"
    /\ \E message \in SimpleTexts \cup MalformedTexts :
         request' = [topic |-> "metacash", message |-> message,
                     jsonMessage |-> json_loads(message)]
    /\ callback' = "metacash"
    /\ replies' = <<>>
    /\ exchanges' = <<>>
    /\ events' = <<>>
    /\ inhibitsBefore' = channelInhibits
    /\ polled' = <<>>
    /\ pc' = "callback"
    /\ UNCHANGED <<deviceAvailable, receivedSignal, channelInhibits, loopExit, exitCode,
                   sspSetupReq, pollArmed>>

\* the 500 ms timer fires and cbOnCheckQuitEvent runs
cbOnCheckQuitEvent ==
    /\ pc = "loop"
    /\ IF receivedSignal # 0
       THEN loopExit' = TRUE /\ receivedSignal' = 0
       ELSE UNCHANGED <<loopExit, receivedSignal>>
    /\ callback' = "checkQuit"
    /\ request' = NoRequest
    /\ replies' = <<>>
    /\ exchanges' = <<>>
    /\ events' = <<>>
    /\ inhibitsBefore' = channelInhibits
    /\ polled' = <<>>
    /\ pc' = "callback"
    /\ UNCHANGED <<deviceAvailable, channelInhibits, exitCode, sspSetupReq, pollArmed>>

\* SIGINT or SIGTERM is delivered between two callbacks
signalHandler ==
    /\ pc = "loop"
    /\ \E signal \in Signals : receivedSignal' = signal
    /\ UNCHANGED <<deviceAvailable, channelInhibits, loopExit, pc, exitCode,
                   callback, request, replies, events, exchanges, inhibitsBefore,
                   polled, sspSetupReq, pollArmed>>

\* the callback returns and event_base_dispatch waits for the next event
EventLoopWait ==
    /\ pc = "callback"
    /\ pc' = "loop"
    /\ callback' = "none"
    /\ request' = NoRequest
    /\ replies' = <<>>
    /\ exchanges' = <<>>
    /\ events' = <<>>
    /\ inhibitsBefore' = channelInhibits
    /\ polled' = <<>>
    /\ UNCHANGED <<deviceAvailable, receivedSignal, channelInhibits, loopExit, exitCode,
                   sspSetupReq, pollArmed>>

\* event_base_dispatch returns after event_base_loopexit and main returns 0
MainReturn ==
    /\ pc = "loop"
    /\ loopExit
    /\ pc' = "exited"
    /\ exitCode' = 0
    /\ UNCHANGED <<deviceAvailable, receivedSignal, channelInhibits, loopExit,
                   callback, request, replies, events, exchanges, inhibitsBefore,
                   polled, sspSetupReq, pollArmed>>

Next ==
    \/ OnRequestMessage
    \/ cbOnMetacashMessage
    \/ OnPollEvent
    \/ cbOnCheckQuitEvent
    \/ signalHandler
    \/ EventLoopWait
    \/ MainReturn

Spec == Init /\ [][Next]_vars

\* The timers of libevent fire however many messages arrive, a callback
\* returns, and the loop is left once event_base_loopexit has been called.
FairSpec ==
    /\ Spec
    /\ SF_vars(cbOnCheckQuitEvent)
    /\ WF_vars(EventLoopWait)
    /\ SF_vars(MainReturn)

\* The digit-string specification: a daemon with hardware, its masks drawn from
\* SampleMasks, handles one request of DigitTexts.
SampleMasks == {0, 21, 170, 255}

DigitInit ==
    /\ deviceAvailable = TRUE
    /\ receivedSignal = 0
    /\ \E m \in SampleMasks : channelInhibits = [d \in Devices |-> m]
    /\ loopExit = FALSE
    /\ pc = "loop"
    /\ exitCode = -1
    /\ callback = "none"
    /\ request = NoRequest
    /\ replies = <<>>
    /\ events = <<>>
    /\ exchanges = <<>>
    /\ inhibitsBefore = channelInhibits
    /\ polled = <<>>
    /\ sspSetupReq = StartupReports
    /\ pollArmed = TRUE

DigitNext == OnDigitRequest

DigitSpec == DigitInit /\ [][DigitNext]_vars

\* The event specification: a daemon with hardware, the validator's report
\* drawn from ValidatorReports, polls devices that answer with EventInputs.
EventInit ==
    /\ deviceAvailable = TRUE
    /\ receivedSignal = 0
    /\ channelInhibits = [d \in Devices |-> 0]
    /\ loopExit = FALSE
    /\ pc = "loop"
    /\ exitCode = -1
    /\ callback = "none"
    /\ request = NoRequest
    /\ replies = <<>>
    /\ events = <<>>
    /\ exchanges = <<>>
    /\ inhibitsBefore = channelInhibits
    /\ polled = <<>>
    /\ \E report \in ValidatorReports :
         sspSetupReq = [StartupReports EXCEPT !["validator"] = report]
    /\ pollArmed = TRUE

EventNext == OnEventPoll \/ EventLoopWait

EventSpec == EventInit /\ [][EventNext]_vars

-----------------------------------------------------------------------------
(* Startup: setup and the initialization of the devices *)

\* ROUTE_STORAGE and ROUTE_CASHBOX of the vendor library
RouteStorage == 0
RouteCashbox == 1

\* the steps of mcSspInitializeDevice that return when not answered OK
InitSteps == <<"sync", "setup_encryption", "host_protocol", "setup_request", "enable">>

\* what a device does during its initialization: the step it fails, if any
FailingSteps == {"none"} \cup {InitSteps[i] : i \in 1..Len(InitSteps)}

\* the result of a step when the device fails the step failing
StepResult(step, failing) == IF step = failing THEN "TIMEOUT" ELSE "OK"

\* mcSspInitializeDevice(sspC, key, device): the exchanges it sends
mcSspInitializeDevice(device, failing) ==
    LET X(op, p1) == Exchange(device, op, p1, 0, StepResult(op, failing))
        sync == <<X("sync", 0)>>
        encryption == sync \o <<X("setup_encryption", 0)>>
        protocol == encryption \o <<X("host_protocol", 6)>>
        setupRequest == protocol \o <<X("setup_request", 0)>>
        enabled == setupRequest \o <<X("get_firmware_version", 0), X("get_dataset_version", 0),
                                X("enable", 0)>>
    IN  IF failing = "sync" THEN sync
        ELSE IF failing = "setup_encryption" THEN encryption
        ELSE IF failing = "host_protocol" THEN protocol
        ELSE IF failing = "setup_request" THEN setupRequest
        ELSE enabled

\* the channel values sspSetupReq of the hopper holds when setup reads it: what
\* setup_request reported, or what the memory held when it never succeeded
HopperReports == {<<>>, <<10>>, <<10, 20>>}

\* the routes setup gives the notes, in its order (amounts in cent)
NoteRoutes ==
    <<[value |-> 500, route |-> RouteCashbox], [value |-> 1000, route |-> RouteCashbox],
      [value |-> 2000, route |-> RouteCashbox], [value |-> 5000, route |-> RouteStorage],
      [value |-> 10000, route |-> RouteStorage], [value |-> 20000, route |-> RouteStorage],
      [value |-> 50000, route |-> RouteStorage]>>

\* what the validator answers to set_refill_mode, set_inhibits and enable_payout
PostIn(refill, inhibits, payout) == [refill |-> refill, inhibits |-> inhibits, payout |-> payout]
PostInputs ==
    {PostIn(r, i, p) : r \in {"OK", "TIMEOUT"}, i \in {"OK", "TIMEOUT"}, p \in {"OK", "TIMEOUT"}}

\* the hardware part of setup: the exchanges it sends and whether it reaches
\* its end, where the poll timer is armed
setup(available, failingValidator, failingHopper, report, post) ==
    IF ~available THEN [exchanges |-> <<>>, finished |-> TRUE]
    ELSE
        LET coinmech == [i \in 1..Len(report) |->
                            Exchange("hopper", "set_coinmech_inhibits", report[i], 0, "OK")]
            routes == [i \in 1..Len(NoteRoutes) |->
                            Exchange("validator", "set_route", NoteRoutes[i].value,
                                     NoteRoutes[i].route, "OK")]
            untilInhibits ==
                mcSspInitializeDevice("validator", failingValidator)
                \o mcSspInitializeDevice("hopper", failingHopper)
                \o coinmech
                \o <<Exchange("validator", "set_refill_mode", 0, 0, post.refill)>>
                \o routes
                \o <<Exchange("validator", "set_inhibits", 0, 0, post.inhibits)>>
        IN  IF post.inhibits # "OK" THEN [exchanges |-> untilInhibits, finished |-> FALSE]
            ELSE [exchanges |-> untilInhibits
                                \o <<Exchange("validator", "enable_payout", 0, 0, post.payout)>>,
                  finished |-> post.payout = "OK"]

\* main before setup: the serial device was opened or not
SetupInit ==
    /\ deviceAvailable \in BOOLEAN
    /\ receivedSignal = 0
    /\ channelInhibits \in [Devices -> UninitializedBytes]
    /\ loopExit = FALSE
    /\ pc = "setup"
    /\ exitCode = -1
    /\ callback = "none"
    /\ request = NoRequest
    /\ replies = <<>>
    /\ events = <<>>
    /\ exchanges = <<>>
    /\ inhibitsBefore = channelInhibits
    /\ polled = <<>>
    /\ sspSetupReq = [d \in Devices |-> <<>>]
    /\ pollArmed = FALSE

\* main calls setup, which exits with 1 when redis cannot be reached and
\* otherwise initializes the hardware, if there is any
RunSetup ==
    /\ pc = "setup"
    /\ \E redis \in BOOLEAN, failingValidator \in FailingSteps, failingHopper \in FailingSteps,
          report \in HopperReports, post \in PostInputs :
         \E eff \in {setup(deviceAvailable, failingValidator, failingHopper, report, post)} :
         IF ~redis
         THEN /\ pc' = "exited"
              /\ exitCode' = 1
              /\ UNCHANGED <<exchanges, channelInhibits, sspSetupReq, pollArmed>>
         ELSE /\ pc' = "loop"
              /\ exchanges' = eff.exchanges
              /\ channelInhibits' =
                    IF deviceAvailable THEN [channelInhibits EXCEPT !["validator"] = 0]
                    ELSE channelInhibits
              /\ sspSetupReq' =
                    IF deviceAvailable THEN [sspSetupReq EXCEPT !["hopper"] = report]
                    ELSE sspSetupReq
              /\ pollArmed' = eff.finished
              /\ UNCHANGED exitCode
    /\ callback' = "setup"
    /\ UNCHANGED <<deviceAvailable, receivedSignal, loopExit, request, replies, events,
                   inhibitsBefore, polled>>

SetupNext == RunSetup

SetupSpec == SetupInit /\ [][SetupNext]_vars

-----------------------------------------------------------------------------
(* What the properties below speak of: the request the callback that ran    *)
(* last was given, as a JSON reader sees it, and what the callback did.     *)

RequestJson == request.jsonMessage
RequestMsgIdJson == json_object_get(RequestJson, <<"msgId">>)
RequestCmdJson == json_object_get(RequestJson, <<"cmd">>)

\* a request callback ran on a message with a string msgId and a string cmd
Accepted ==
    /\ callback = "request"
    /\ json_is_string(RequestMsgIdJson)
    /\ json_is_string(RequestCmdJson)

RequestMsgId == json_string_value(RequestMsgIdJson)
RequestCmd == json_string_value(RequestCmdJson)
RequestDevice == DeviceOf(request.topic)
RequestResponseTopic == ResponseTopic(request.topic)

\* the accepted request's cmd is c
AcceptedCmd(c) == Accepted /\ RequestCmd = <<c>>

\* the replies of the formats a claim names
OkReply == replyOk(RequestResponseTopic, GeneratedUuid, RequestMsgId)
FailedReply == replyFailed(RequestResponseTopic, GeneratedUuid, RequestMsgId)
HardwareUnavailableReply ==
    replyWith(RequestResponseTopic, FmtHardwareUnavailable, <<RequestMsgId>>)
UnknownCommandReply ==
    replyWith(RequestResponseTopic, FmtUnknownCommand, <<RequestMsgId, RequestCmd>>)

\* the channels string of the request
RequestChannelsJson == json_object_get(RequestJson, <<"channels">>)
ChannelsGiven == json_is_string(RequestChannelsJson)
ChannelsString == json_string_value(RequestChannelsJson)

\* the channel set of a channels string: bit i - 1 for each digit i of 1..8 in it
ChannelSet(channels) ==
    {i - 1 : i \in {d \in 1..8 : \E k \in 1..Len(channels) : channels[k] = Digits[d + 1]}}

\* a byte as the set of its bits, and back
BitsOf(m) == {i \in 0..7 : (m \div (2 ^ i)) % 2 = 1}
RECURSIVE ByteOf(_)
ByteOf(bits) ==
    IF bits = {} THEN 0
    ELSE LET i == CHOOSE b \in bits : TRUE IN 2 ^ i + ByteOf(bits \ {i})

\* the mask of the request's device before the request, and the low byte each
\* channel command is to transmit for it
MaskBefore == inhibitsBefore[RequestDevice]
MaskNow == channelInhibits[RequestDevice]
LowOfEnable == ByteOf(BitsOf(MaskBefore) \cup ChannelSet(ChannelsString))
LowOfDisable == ByteOf(BitsOf(MaskBefore) \ ChannelSet(ChannelsString))
LowOfInhibit == ByteOf((0..7) \ ChannelSet(ChannelsString))

\* exactly one exchange was made: set_inhibits(low, 0xFF) to the request's device
TransmittedInhibits(low) ==
    /\ Len(exchanges) = 1
    /\ exchanges[1].addr = SSPAddress(RequestDevice)
    /\ exchanges[1].op = "set_inhibits"
    /\ exchanges[1].p1 = low
    /\ exchanges[1].p2 = 255

\* an enable-channels or disable-channels request with a channels string was
\* handled with hardware
EnableOrDisableHandled ==
    /\ AcceptedCmd("enable-channels") \/ AcceptedCmd("disable-channels")
    /\ deviceAvailable
    /\ ChannelsGiven

InhibitHandled ==
    /\ AcceptedCmd("inhibit-channels")
    /\ deviceAvailable
    /\ ChannelsGiven

-----------------------------------------------------------------------------
(* C1 .. C6: the reply to a request, quit, and the dispatch *)

\* C1: every request with a string msgId and a string cmd gets exactly one
\* reply, on the response topic paired with its request topic, whose correlId
\* is the request's msgId: whatever the cmd, whatever the exchanges return, with
\* and without hardware.
C1_OneCorrelatedReply ==
    Accepted =>
        /\ Len(replies) = 1
        /\ replies[1].topic = RequestResponseTopic
        /\ replies[1].correlId = RequestMsgId

\* C2: a quit request, on either topic and with or without hardware, gets
\* exactly one reply, {msgId: R, correlId: its msgId, result: ok}, hence neither
\* a "hardware unavailable" nor an "unknown command" reply, and no exchange is
\* made for it.
C2_QuitAnsweredOnce ==
    AcceptedCmd("quit") =>
        /\ replies = <<OkReply>>
        /\ exchanges = <<>>

\* a step of the shutdown check
CheckQuitStep == pc = "loop" /\ callback' = "checkQuit"
\* a step of the request callback
RequestStep == pc = "loop" /\ callback' = "request"

\* the request texts with a string msgId whose cmd is "quit"
QuitTexts ==
    {t \in RequestTexts :
        LET j == json_loads(t) IN
        /\ json_is_string(json_object_get(j, <<"msgId">>))
        /\ json_object_get(j, <<"cmd">>) = JString(<<"quit">>)}

\* C3: once a quit request has been handled or SIGTERM/SIGINT received, the
\* next shutdown check asks the loop to exit and the daemon ends with exit code
\* 0; a shutdown check asks for the exit only when a quit request or a signal
\* came before it, so a request raises the shutdown flag only if it is a quit.
C3_ShutdownOnQuitOrSignal ==
    /\ [][CheckQuitStep /\ receivedSignal # 0 => loopExit']_vars
    /\ [][CheckQuitStep /\ receivedSignal = 0 => loopExit' = loopExit]_vars
    /\ [][RequestStep /\ receivedSignal = 0 /\ receivedSignal' # 0
            => request'.message \in QuitTexts]_vars
    /\ [][RequestStep /\ request'.message \in QuitTexts => receivedSignal' # 0]_vars
    /\ (receivedSignal # 0) ~> (pc = "exited" /\ exitCode = 0)

\* C4: without hardware a request whose cmd is not quit gets the reply
\* {correlId: its msgId, error: "hardware unavailable"} and no other reply.
C4_OnlyHardwareUnavailable ==
    Accepted /\ ~deviceAvailable /\ RequestCmd # <<"quit">> =>
        replies = <<HardwareUnavailableReply>>

\* C5: with hardware a request whose cmd is no recognized command gets the
\* reply {correlId: its msgId, error: "unknown command", cmd: its cmd}, and no
\* exchange is made.
C5_UnknownCommandEchoesCmd ==
    /\ Accepted
    /\ deviceAvailable
    /\ \A c \in RecognizedCommands : RequestCmd # <<c>>
    => /\ replies = <<UnknownCommandReply>>
       /\ exchanges = <<>>

\* the empty exchange, which handleEmpty alone makes, was made
EmptyHandlerRan == \E i \in 1..Len(exchanges) : exchanges[i].op = "empty"

\* C6: the handler that runs is a function of the parsed top-level cmd alone:
\* with hardware, handleEmpty runs for every request whose cmd is "empty",
\* however the text is spaced and whatever else it holds, and for no request
\* whose cmd is something else.
C6_DispatchOnParsedCmd ==
    Accepted /\ deviceAvailable => (EmptyHandlerRan <=> RequestCmd = <<"empty">>)

-----------------------------------------------------------------------------
(* C7 .. C10: the channel commands *)

\* C7: enable-channels with channel set S, for a device with cached mask m,
\* makes the one exchange set_inhibits(low = m OR S, high = 0xFF), and
\* disable-channels set_inhibits(low = m AND NOT S, high = 0xFF); when the
\* device answers OK the cached mask is that low byte and the reply is
\* result ok.
C7_EnableDisableTransmitAndStore ==
    EnableOrDisableHandled =>
        LET low == IF RequestCmd = <<"enable-channels">> THEN LowOfEnable ELSE LowOfDisable
        IN  /\ TransmittedInhibits(low)
            /\ exchanges[1].res = "OK" => MaskNow = low /\ replies = <<OkReply>>

\* enable-channels "135" for a device with mask 0x00, answered OK: 0x15 sent
\* and cached
C7_Reached ==
    /\ AcceptedCmd("enable-channels")
    /\ deviceAvailable
    /\ ChannelsGiven
    /\ ChannelsString = <<"1", "3", "5">>
    /\ MaskBefore = 0
    /\ TransmittedInhibits(21)
    /\ exchanges[1].res = "OK"
    /\ MaskNow = 21
    /\ replies = <<OkReply>>

\* the set_inhibits exchange of the request was not answered OK
InhibitsRefused ==
    \E i \in 1..Len(exchanges) :
        exchanges[i].op = "set_inhibits" /\ exchanges[i].res # "OK"

\* C8: when the set_inhibits exchange of enable-channels or disable-channels is
\* not answered OK (fail, timeout, key not set), the cached mask of the device
\* is what it was and the reply is result failed.
C8_RefusedKeepsMask ==
    EnableOrDisableHandled /\ InhibitsRefused =>
        /\ MaskNow = MaskBefore
        /\ replies = <<FailedReply>>

\* disable-channels "135" for a device with mask 0xFF times out: 0xEA was sent,
\* 0xFF stays cached
C8_Reached ==
    /\ AcceptedCmd("disable-channels")
    /\ deviceAvailable
    /\ ChannelsGiven
    /\ ChannelsString = <<"1", "3", "5">>
    /\ MaskBefore = 255
    /\ TransmittedInhibits(234)
    /\ exchanges[1].res = "TIMEOUT"
    /\ MaskNow = 255
    /\ replies = <<FailedReply>>

\* C9: inhibit-channels with channel set S makes the one exchange
\* set_inhibits(low = NOT S, high = 0xFF), whatever the cached mask is, and
\* leaves the cached masks as they were, whatever the device answers.
C9_InhibitTransient ==
    InhibitHandled =>
        /\ TransmittedInhibits(LowOfInhibit)
        /\ channelInhibits = inhibitsBefore

\* inhibit-channels "135" for a device with mask 0x15, answered OK: 0xEA sent,
\* 0x15 stays cached
C9_Reached ==
    /\ InhibitHandled
    /\ ChannelsString = <<"1", "3", "5">>
    /\ MaskBefore = 21
    /\ TransmittedInhibits(234)
    /\ exchanges[1].res = "OK"
    /\ MaskNow = 21

\* the digit i occurs in the channels string of the request
Occurs(i) == \E k \in 1..Len(ChannelsString) : ChannelsString[k] = Digits[i + 1]

\* bit i - 1 of the low byte transmitted, of the mask before and of the mask now
LowBit(i) == (exchanges[1].p1 \div (2 ^ (i - 1))) % 2 = 1
BeforeBit(i) == (MaskBefore \div (2 ^ (i - 1))) % 2 = 1

\* C10: bit i - 1 is in the channel set of enable-channels, disable-channels
\* and inhibit-channels exactly when the digit i of 1..8 occurs in the channels
\* string: enable-channels sets, disable-channels and inhibit-channels clear
\* the bits of the digits that occur and no other, so "9" and "0" do nothing;
\* enable-channels and disable-channels with the empty string send the cached
\* mask, keep it and reply result ok when the device answers OK.
C10_ChannelSetOfDigits ==
    /\ Accepted
    /\ \E c \in ChannelCommands : RequestCmd = <<c>>
    /\ deviceAvailable
    /\ ChannelsGiven
    => /\ Len(exchanges) = 1
       /\ exchanges[1].op = "set_inhibits"
       /\ exchanges[1].p1 \in 0..255
       /\ \A i \in 1..8 :
            LowBit(i) <=>
                CASE RequestCmd = <<"enable-channels">> -> BeforeBit(i) \/ Occurs(i)
                  [] RequestCmd = <<"disable-channels">> -> BeforeBit(i) /\ ~Occurs(i)
                  [] OTHER -> ~Occurs(i)
       /\ ChannelsString = <<>> /\ RequestCmd # <<"inhibit-channels">> =>
            /\ exchanges[1].p1 = MaskBefore
            /\ exchanges[1].res = "OK" => MaskNow = MaskBefore /\ replies = <<OkReply>>

\* enable-channels "93" for a device with mask 0x00, answered OK: the 9 adds
\* nothing, 0x04 is sent and cached
C10_Reached ==
    /\ AcceptedCmd("enable-channels")
    /\ deviceAvailable
    /\ ChannelsGiven
    /\ ChannelsString = <<"9", "3">>
    /\ MaskBefore = 0
    /\ TransmittedInhibits(4)
    /\ exchanges[1].res = "OK"
    /\ MaskNow = 4
    /\ replies = <<OkReply>>

-----------------------------------------------------------------------------
(* C11, C12: payout and float *)

\* a payout or float request with a number as amount was accepted with hardware
PayoutRequested ==
    /\ Accepted
    /\ \E c \in PayoutCommands : RequestCmd = <<c>>
    /\ deviceAvailable
    /\ json_is_number(json_object_get(RequestJson, <<"amount">>))

RequestAmount == json_number_value(json_object_get(RequestJson, <<"amount">>))

\* the payout or float exchange of the request was made
PayoutExchanged ==
    /\ PayoutRequested
    /\ Len(exchanges) = 1
    /\ exchanges[1].op \in {"payout", "float"}

\* the texts of the failure codes 0x01 .. 0x04
FailureTexts ==
    <<"not enough value in smart payout", "can't pay exact amount",
      "smart payout busy", "smart payout disabled">>

\* the reply {correlId: msgId of the request, error: text}
ErrorReply(text) ==
    replyWith(RequestResponseTopic, FmtError, <<RequestMsgId, <<text>>>>)

\* C11: when the exchange of do-payout, test-payout, do-float or test-float is
\* answered with a failure and the failure code 0x01, 0x02, 0x03 or 0x04, the
\* reply is {correlId: msgId of the request, error: the text of the code}; when
\* it is answered OK the reply is result ok.
C11_PayoutReplies ==
    PayoutExchanged =>
        /\ exchanges[1].res = "OK" => replies = <<OkReply>>
        /\ exchanges[1].res # "OK" /\ exchanges[1].data1 \in 1..4 =>
                replies = <<ErrorReply(FailureTexts[exchanges[1].data1])>>

\* do-float fails with code 0x03: the reply is the error "smart payout busy"
C11_Reached ==
    /\ PayoutExchanged
    /\ RequestCmd = <<"do-float">>
    /\ exchanges[1].op = "float"
    /\ exchanges[1].res = "FAIL"
    /\ exchanges[1].data1 = 3
    /\ replies = <<ErrorReply("smart payout busy")>>

\* C12: a do-payout or do-float request always sends its exchange with option
\* DO, a test-payout or test-float request always with option TEST, and the
\* amount sent is the amount of the request.
C12_OptionFollowsCmd ==
    PayoutRequested =>
        /\ Len(exchanges) = 1
        /\ exchanges[1].op =
             (IF RequestCmd \in {<<"do-payout">>, <<"test-payout">>} THEN "payout" ELSE "float")
        /\ exchanges[1].p1 = RequestAmount
        /\ exchanges[1].p2 =
             (IF RequestCmd \in {<<"do-payout">>, <<"do-float">>} THEN OptionDo ELSE OptionTest)

-----------------------------------------------------------------------------
(* C13, C14: set-denomination-level *)

\* a set-denomination-level request with numbers as level and amount was
\* accepted with hardware
SetLevelRequested ==
    /\ AcceptedCmd("set-denomination-level")
    /\ deviceAvailable
    /\ json_is_number(json_object_get(RequestJson, <<"level">>))
    /\ json_is_number(json_object_get(RequestJson, <<"amount">>))

\* the level (a number of coins) and the amount (the value of the coin) of the
\* request
RequestLevel == json_number_value(json_object_get(RequestJson, <<"level">>))

\* exchange i sets the level of the coin of the given value: the level field is
\* p1, the value field p2
SetsLevel(i, value, level) ==
    /\ exchanges[i].addr = SSPAddress(RequestDevice)
    /\ exchanges[i].op = "set_denomination_level"
    /\ exchanges[i].p1 = level
    /\ exchanges[i].p2 = value

\* C13: set-denomination-level with a level above 0 makes two exchanges, first
\* the one that sets the level of the coin value to 0, then the one that sets
\* it to the level of the request; with level 0 it makes exactly one exchange.
\* The status of the last exchange alone decides between result ok and result
\* failed.
C13_ZeroThenLevel ==
    SetLevelRequested =>
        /\ RequestLevel > 0 =>
            /\ Len(exchanges) = 2
            /\ SetsLevel(1, RequestAmount, 0)
            /\ SetsLevel(2, RequestAmount, RequestLevel)
        /\ RequestLevel = 0 => Len(exchanges) = 1
        /\ Len(exchanges) > 0
        /\ replies = <<IF exchanges[Len(exchanges)].res = "OK" THEN OkReply ELSE FailedReply>>

\* C14: in every exchange of set-denomination-level the value field carries
\* the amount of the request and the level field its level (0 in the exchange
\* that zeroes the level first); the last exchange carries the level of the
\* request.
C14_LevelAndValueFields ==
    SetLevelRequested =>
        /\ \A i \in 1..Len(exchanges) :
            SetsLevel(i, RequestAmount, 0) \/ SetsLevel(i, RequestAmount, RequestLevel)
        /\ Len(exchanges) > 0
        /\ SetsLevel(Len(exchanges), RequestAmount, RequestLevel)

-----------------------------------------------------------------------------
(* C15: empty, smart-empty, enable, disable *)

\* the request names the command c and no other: its cmd is c, written
\* "cmd":"c", and the text of no other command's cmd occurs in it, so that the
\* dispatch hands it to the handler of c
NamesOnly(c) ==
    /\ AcceptedCmd(c)
    /\ isCommand(request.message, <<c>>)
    /\ \A d \in RecognizedCommands \ {c} : ~isCommand(request.message, <<d>>)

\* the operation each of the four commands sends
OperationOf(c) ==
    CASE c = "empty" -> "empty"
      [] c = "smart-empty" -> "smart_empty"
      [] c = "enable" -> "enable"
      [] c = "disable" -> "disable"

AcceptedReply == replyAccepted(RequestResponseTopic, GeneratedUuid, RequestMsgId)

\* C15: empty, smart-empty, enable and disable each make exactly one exchange,
\* of their operation and with the device of the request topic, and reply
\* {accepted: true} with correlId = msgId of the request in the same run,
\* whatever the exchange returned; the run publishes no event.
C15_AcceptedAtOnce ==
    \A c \in {"empty", "smart-empty", "enable", "disable"} :
        NamesOnly(c) /\ deviceAvailable =>
            /\ Len(exchanges) = 1
            /\ exchanges[1].addr = SSPAddress(RequestDevice)
            /\ exchanges[1].op = OperationOf(c)
            /\ replies = <<AcceptedReply>>
            /\ replies[1].correlId = RequestMsgId
            /\ events = <<>>

\* smart-empty for the hopper, whose exchange times out, is accepted all the
\* same
C15_Reached ==
    /\ NamesOnly("smart-empty")
    /\ deviceAvailable
    /\ request.topic = "hopper-request"
    /\ Len(exchanges) = 1
    /\ exchanges[1].op = "smart_empty"
    /\ exchanges[1].addr = 16
    /\ exchanges[1].res = "TIMEOUT"
    /\ replies = <<AcceptedReply>>

-----------------------------------------------------------------------------
(* C16 .. C18: a poll tick *)

\* the poll callback ran with hardware
Ticked == callback = "poll" /\ polled # <<>>

\* the answer the poll of a device was given in this tick
PolledOf(device) == IF device = "hopper" THEN polled[1] ELSE polled[2]

\* what the tick published for a device and sent to it, in order
EventsOf(device) ==
    LET OfDevice(e) == e.topic = EventTopic(device) IN SelectSeq(events, OfDevice)
ExchangesOf(device) ==
    LET OfDevice(x) == x.addr = SSPAddress(device) IN SelectSeq(exchanges, OfDevice)

\* the published event e reports the event code of a poll answer of device
Reports(e, device, code) ==
    /\ e.topic = EventTopic(device)
    /\ code = "RESET" => e.event = "unit reset"
    /\ code = "DISABLED" => e.event = "disabled"
    /\ code = "JAMMED" => (e.event = "jammed" \/ (e.event = "unknown" /\ e.id = code))
    /\ code \notin {"RESET", "DISABLED", "JAMMED"} => e.event = "unknown" /\ e.id = code

\* the events of a device are those of the head of its batch, in batch order
InBatchOrder(device) ==
    LET published == EventsOf(device)
        batch == PolledOf(device).batch
    IN  /\ Len(published) <= Len(batch)
        /\ \A k \in 1..Len(published) : Reports(published[k], device, batch[k].event)

\* C16: in a poll tick the hopper is polled before the validator; the events of
\* a batch are published in the order of the batch; everything sent to and
\* published for the hopper precedes everything sent to and published for the
\* validator.
C16_HopperThenValidatorInOrder ==
    Ticked =>
        /\ Len(exchanges) > 0
        /\ exchanges[1].op = "poll"
        /\ exchanges[1].addr = SSPAddress("hopper")
        /\ exchanges = ExchangesOf("hopper") \o ExchangesOf("validator")
        /\ events = EventsOf("hopper") \o EventsOf("validator")
        /\ InBatchOrder("hopper")
        /\ InBatchOrder("validator")
        /\ pc # "exited" =>
            \A d \in Devices :
                PolledOf(d).res = "OK" => Len(EventsOf(d)) = Len(PolledOf(d).batch)

\* the hopper answers jammed, reset, 0x42 and the validator disabled: four
\* events in that order
C16_Reached ==
    /\ Ticked
    /\ PolledOf("hopper").res = "OK"
    /\ Len(PolledOf("hopper").batch) = 3
    /\ PolledOf("validator").res = "OK"
    /\ Len(PolledOf("validator").batch) = 1
    /\ Len(events) = 4
    /\ events[1] = Published("hopper", "jammed", "")
    /\ events[2] = Published("hopper", "unit reset", "")
    /\ events[3] = Published("hopper", "unknown", "0x42")
    /\ events[4] = Published("validator", "disabled", "")

\* the device was polled in this tick
WasPolled(device) == Ticked /\ ExchangesOf(device) # <<>>

\* C17: when the poll of a device times out, nothing is published for the
\* device and nothing more is sent to it in this tick; when the poll returns
\* KEY_NOT_SET, exactly one setup_encryption exchange is sent to the device
\* and nothing is published for it.  Neither ends the daemon: when both polls
\* end this way the callback returns to the event loop.
C17_TimeoutAndKeyNotSet ==
    /\ \A d \in Devices :
        WasPolled(d) =>
            /\ PolledOf(d).res = "TIMEOUT" =>
                /\ EventsOf(d) = <<>>
                /\ ExchangesOf(d) = <<Waited(Exchange(d, "poll", 0, 0, "TIMEOUT"))>>
            /\ PolledOf(d).res = "KEY_NOT_SET" =>
                /\ EventsOf(d) = <<>>
                /\ Len(ExchangesOf(d)) = 2
                /\ ExchangesOf(d)[1] = Waited(Exchange(d, "poll", 0, 0, "KEY_NOT_SET"))
                /\ ExchangesOf(d)[2].op = "setup_encryption"
    /\ Ticked /\ (\A d \in Devices : PolledOf(d).res \in {"TIMEOUT", "KEY_NOT_SET"}) =>
        /\ pc = "callback"
        /\ exitCode = -1
        /\ WasPolled("hopper") /\ WasPolled("validator")

\* the hopper's poll times out and the validator's returns KEY_NOT_SET, its
\* setup_encryption failing: three exchanges, no event, the daemon runs on
C17_Reached ==
    /\ Ticked
    /\ exchanges = <<Waited(Exchange("hopper", "poll", 0, 0, "TIMEOUT")),
                     Waited(Exchange("validator", "poll", 0, 0, "KEY_NOT_SET")),
                     Exchange("validator", "setup_encryption", 0, 0, "FAIL")>>
    /\ events = <<>>
    /\ pc = "callback"

\* the places of the RESET events in the batch of a device that were handled
ResetsHandled(device) ==
    {k \in 1..Len(EventsOf(device)) : PolledOf(device).batch[k].event = "RESET"}

\* the host_protocol exchanges sent to a device
HostProtocolsOf(device) ==
    LET IsHostProtocol(x) == x.op = "host_protocol" IN
    SelectSeq(ExchangesOf(device), IsHostProtocol)

\* C18: for either device each RESET event of a poll batch publishes "unit
\* reset" on the device's event topic and is followed by a host_protocol(0x06)
\* exchange with that device; if that exchange is not answered OK the process
\* ends with exit code 3, otherwise the rest of the batch is handled.
C18_ResetResync ==
    \A d \in Devices :
        WasPolled(d) /\ PolledOf(d).res = "OK" =>
            LET hps == HostProtocolsOf(d)
                failed == \E i \in 1..Len(hps) : hps[i].res # "OK"
            IN  /\ \A k \in ResetsHandled(d) :
                        EventsOf(d)[k] = Published(d, "unit reset", "")
                /\ Len(hps) = Cardinality(ResetsHandled(d))
                /\ \A i \in 1..Len(hps) : hps[i].p1 = 6
                /\ failed =>
                    /\ pc = "exited"
                    /\ exitCode = 3
                    /\ hps[Len(hps)].res # "OK"
                    /\ exchanges[Len(exchanges)] = hps[Len(hps)]
                    /\ events[Len(events)] = Published(d, "unit reset", "")
                /\ ~failed /\ (d = "hopper" \/ pc # "exited") =>
                    Len(EventsOf(d)) = Len(PolledOf(d).batch)

\* the hopper's batch jammed, reset, 0x42 is handled to its end, its
\* host_protocol answered OK; the validator's reset is followed by a
\* host_protocol that times out, and the process exits with 3
C18_Reached ==
    /\ Ticked
    /\ EventsOf("hopper") = <<Published("hopper", "jammed", ""),
                              Published("hopper", "unit reset", ""),
                              Published("hopper", "unknown", "0x42")>>
    /\ HostProtocolsOf("hopper") = <<Exchange("hopper", "host_protocol", 6, 0, "OK")>>
    /\ EventsOf("validator") = <<Published("validator", "unit reset", "")>>
    /\ HostProtocolsOf("validator") =
            <<Exchange("validator", "host_protocol", 6, 0, "TIMEOUT")>>
    /\ pc = "exited"
    /\ exitCode = 3

-----------------------------------------------------------------------------
(* C19: KEY_NOT_SET *)

\* exchange k renegotiates the key with the device of exchange i
Renegotiates(k, i) ==
    /\ exchanges[k].addr = exchanges[i].addr
    /\ exchanges[k].op = "setup_encryption"

\* C19: after an exchange answered KEY_NOT_SET, be it a poll or a command, no
\* command other than a poll is sent to that device before a setup_encryption
\* exchange has been sent to it.
C19_RenegotiateBeforeNextCommand ==
    \A i \in 1..Len(exchanges) : \A j \in (i + 1)..Len(exchanges) :
        /\ exchanges[i].res = "KEY_NOT_SET"
        /\ exchanges[j].addr = exchanges[i].addr
        /\ exchanges[j].op \notin {"poll", "setup_encryption"}
        => \E k \in (i + 1)..(j - 1) : Renegotiates(k, i)

-----------------------------------------------------------------------------
(* C20: the initialization of the devices at startup *)

\* setup has run with hardware
HardwareSetUp == callback = "setup" /\ pc = "loop" /\ deviceAvailable

\* the places in exchanges of the exchanges of an operation with a device
PlacesOf(device, ops) ==
    {i \in 1..Len(exchanges) :
        exchanges[i].addr = SSPAddress(device) /\ exchanges[i].op \in ops}

\* some exchange of ops is sent to device, and all of them before all of later
Precede(device, ops, later) ==
    /\ PlacesOf(device, ops) # {}
    /\ \A i \in PlacesOf(device, ops) : \A j \in PlacesOf(device, later) : i < j

\* the operations of the post-init of a device
PostInitOf(device) ==
    IF device = "hopper" THEN {"set_coinmech_inhibits"}
    ELSE {"set_refill_mode", "set_route", "set_inhibits", "enable_payout"}

\* C20: with hardware, every exchange of the initialization being answered OK,
\* each device is sent sync, setup_encryption, host_protocol(0x06) and
\* setup_request in this order, then its post-init (hopper:
\* set_coinmech_inhibits per reported channel; validator: set_refill_mode, the
\* seven set_route, set_inhibits(0x00, 0x00), enable_payout), and enable last,
\* after the post-init.
C20_EnableAfterPostInit ==
    /\ HardwareSetUp
    /\ \A i \in 1..Len(exchanges) : exchanges[i].res = "OK"
    => \A d \in Devices :
        /\ Precede(d, {"sync"}, {"setup_encryption"})
        /\ Precede(d, {"setup_encryption"}, {"host_protocol"})
        /\ Precede(d, {"host_protocol"}, {"setup_request"})
        /\ Precede(d, {"setup_request"}, PostInitOf(d) \cup {"enable"})
        /\ Precede(d, {"set_refill_mode"}, {"set_route"}) \/ d = "hopper"
        /\ Precede(d, {"set_route"}, {"set_inhibits"}) \/ d = "hopper"
        /\ Precede(d, {"set_inhibits"}, {"enable_payout"}) \/ d = "hopper"
        /\ PlacesOf(d, {"enable"}) # {}
        /\ \A i \in PlacesOf(d, PostInitOf(d)) : \A j \in PlacesOf(d, {"enable"}) : i < j

-----------------------------------------------------------------------------
(* C21: a failing step of the initialization *)

\* the operations of the initialization of a device, post-init included
InitializationOf(device) ==
    {InitSteps[i] : i \in 1..Len(InitSteps)} \cup PostInitOf(device)

\* C21: when hardware is set up and a step of the initialization of a device
\* (sync, setup_encryption, host_protocol, setup_request, a post-init step or
\* enable) is not answered OK, no later exchange of the initialization or of
\* the post-init is sent to that device.
C21_FailedStepAbortsInit ==
    HardwareSetUp =>
        \A d \in Devices : \A i \in PlacesOf(d, InitializationOf(d)) :
            exchanges[i].res # "OK"
            => \A j \in PlacesOf(d, InitializationOf(d)) : j <= i

-----------------------------------------------------------------------------
(* C22: the cached inhibit masks after startup *)

\* C22: after a startup with hardware in which every exchange of the
\* initialization was answered OK, the cached inhibit mask of each device,
\* hopper and validator, is 0x00 (so that the first enable-channels with set S
\* transmits and caches exactly S).
C22_MasksZeroAfterInit ==
    /\ HardwareSetUp
    /\ \A i \in 1..Len(exchanges) : exchanges[i].res = "OK"
    => \A d \in Devices : channelInhibits[d] = 0

-----------------------------------------------------------------------------
(* C23: the amounts of the validator's READ and CREDIT events *)

\* the poll of device was answered OK and every event of its batch was published
AllPublished(device) ==
    /\ Ticked
    /\ PolledOf(device).res = "OK"
    /\ Len(EventsOf(device)) = Len(PolledOf(device).batch)

\* the published event e is name with channel k and the amount of channel k in
\* the validator's report
WithChannelAmount(e, name, k) ==
    /\ e.event = name
    /\ e.channel = <<k>>
    /\ e.amount = <<sspSetupReq["validator"][k] * 100>>

\* C23: a READ event of the validator with data1 = k > 0, and a CREDIT event
\* with data1 = k, k a channel of the cached report, is published with
\* channel = k and amount = (value of channel k in the report) * 100; a READ
\* event with data1 = 0 is published as 'reading' without an amount.
C23_ValidatorAmounts ==
    AllPublished("validator") =>
        \A i \in 1..Len(PolledOf("validator").batch) :
            LET e == PolledOf("validator").batch[i]
                published == EventsOf("validator")[i]
                reported == e.data1 \in 1..Len(sspSetupReq["validator"])
            IN  /\ e.event = "READ" /\ reported => WithChannelAmount(published, "read", e.data1)
                /\ e.event = "CREDIT" /\ reported
                    => WithChannelAmount(published, "credit", e.data1)
                /\ e.event = "READ" /\ e.data1 = 0
                    => published.event = "reading" /\ published.amount = <<>>

C23_Reached ==
    /\ AllPublished("validator")
    /\ sspSetupReq["validator"] = <<10, 20, 50>>
    /\ PolledOf("validator").batch = <<DataEvent("CREDIT", 2, "EUR")>>
    /\ EventsOf("validator")[1].amount = <<2000>>
    /\ EventsOf("validator")[1].channel = <<2>>

-----------------------------------------------------------------------------
(* C24: amount and currency of the hopper's events *)

\* the events published for the hopper's poll events with an amount
AmountEventNames ==
    [DISPENSING |-> "dispensing", DISPENSED |-> "dispensed",
     COIN_CREDIT |-> "coin credit", CASHBOX_PAID |-> "cashbox paid"]

\* C24: every DISPENSING, DISPENSED, COIN_CREDIT and CASHBOX_PAID poll event of
\* the hopper is published on hopper-event as an event that carries
\* amount = data1 and cc = the currency code of the poll event.
C24_HopperAmountAndCurrency ==
    AllPublished("hopper") =>
        \A i \in 1..Len(PolledOf("hopper").batch) :
            LET e == PolledOf("hopper").batch[i]
                published == EventsOf("hopper")[i]
            IN  e.event \in DOMAIN AmountEventNames
                => /\ published.topic = "hopper-event"
                   /\ published.event = AmountEventNames[e.event]
                   /\ published.amount = <<e.data1>>
                   /\ published.cc = e.cc

\* C25: a CALIBRATION_FAIL poll event of either device with sub-code s in 0..7
\* is published as a 'calibration fail' event whose error names s; with
\* s = COMMAND_RECAL a 'recalibrating' event is published as well and
\* run_calibration is sent to the device; with no other sub-code is
\* run_calibration sent.
C25_CalibrationFail ==
    \A d \in Devices :
        /\ Ticked
        /\ PolledOf(d).res = "OK"
        /\ Len(PolledOf(d).batch) = 1
        /\ PolledOf(d).batch[1].event = "CALIBRATION_FAIL"
        => LET s == PolledOf(d).batch[1].data1
               Named(name) == \E i \in 1..Len(EventsOf(d)) : EventsOf(d)[i].event = name
               calibrated == PlacesOf(d, {"run_calibration"})
           IN  /\ s \in 0..7 => Named("calibration fail")
               /\ s < CommandRecal
                    => /\ EventsOf(d)[1].error = CalibrationErrors[s + 1]
                       /\ calibrated = {}
               /\ s = CommandRecal => Named("recalibrating") /\ Cardinality(calibrated) = 1

-----------------------------------------------------------------------------
(* C26, C27: the exchanges on the serial link *)

\* C26: every exchange sent while the event loop runs (a poll, the exchange of
\* a command, the second exchange of set-denomination-level, host_protocol
\* after RESET, setup_encryption after KEY_NOT_SET, run_calibration) is
\* preceded by its own hardware wait: no two exchanges follow each other
\* without a call of hardwareWaitTime between them.
C26_EveryExchangeWaited ==
    callback \in {"request", "poll"} =>
        \A i \in 1..Len(exchanges) : exchanges[i].waited

\* the exchanges of each device stand together in exchanges
DevicesApart ==
    \A i \in 1..Len(exchanges) : \A k \in (i + 1)..Len(exchanges) :
        exchanges[i].addr = exchanges[k].addr
        => \A j \in i..k : exchanges[j].addr = exchanges[i].addr

\* what one callback left behind is the work of that callback alone
OneCallbackAtATime ==
    /\ callback = "request"
        => /\ events = <<>>
           /\ \A i \in 1..Len(exchanges) :
                exchanges[i].op # "poll" /\ exchanges[i].addr = SSPAddress(RequestDevice)
    /\ callback = "poll" => replies = <<>> /\ DevicesApart
    /\ callback \notin {"request", "poll"} => exchanges = <<>>

\* C27: the exchanges of a poll tick and those of a command handler never
\* interleave, the exchanges to one device are not interrupted by an exchange
\* to the other, and a callback that has started runs to its end before the
\* next callback starts.
C27_OneExchangeInFlight ==
    [][/\ OneCallbackAtATime'
       /\ pc = "callback" => pc' = "loop" /\ callback' = "none" /\ exchanges' = <<>>]_vars

C27_Reached ==
    /\ callback = "poll"
    /\ pc = "callback"
    /\ Len(ExchangesOf("hopper")) = 2
    /\ Len(ExchangesOf("validator")) = 2
    /\ exchanges[2].op = "setup_encryption"
    /\ exchanges[4].op = "host_protocol"

-----------------------------------------------------------------------------
(* C28: requests that are refused before the dispatch *)

\* the callback published one reply, an error on the paired response topic
OneErrorReply ==
    /\ Len(replies) = 1
    /\ replies[1].topic = RequestResponseTopic
    /\ replies[1].key = "error"

\* the three ways a request is refused before a command is looked for
NotJson == RequestJson = JNull
NoMsgId == ~NotJson /\ ~json_is_string(RequestMsgIdJson)
NoCmd == ~NotJson /\ json_is_string(RequestMsgIdJson) /\ ~json_is_string(RequestCmdJson)

\* C28: a request that is not valid JSON gets exactly one 'could not parse
\* json' error reply on the paired response topic; a request without a string
\* msgId gets exactly one error reply without correlId; a request with msgId
\* but without a string cmd gets exactly one error reply with
\* correlId = msgId.  In all three cases no exchange is sent and no device
\* state changes.
C28_RefusedBeforeDispatch ==
    callback = "request" =>
        /\ NotJson => OneErrorReply /\ replies[1].value = <<"could not parse json">>
        /\ NoMsgId => OneErrorReply /\ replies[1].correlId = Absent
        /\ NoCmd => OneErrorReply /\ replies[1].correlId = RequestMsgId
        /\ NotJson \/ NoMsgId \/ NoCmd
            => /\ exchanges = <<>>
               /\ channelInhibits = inhibitsBefore
               /\ pc = "callback"

C28_Reached ==
    /\ callback = "request"
    /\ NoCmd
    /\ request.message = Object(<<MsgIdA, Member("cmd", <<"7">>, FALSE)>>)
    /\ replies[1].correlId = <<"A">>
    /\ replies[1].value = <<"property 'cmd' missing or not a string">>

-----------------------------------------------------------------------------
(* C29, C30: the envelopes of the replies *)

\* C29: every reply to a request with a string msgId and a string cmd carries,
\* next to correlId, a msgId holding the UUID generated for the response, be it
\* an ok, failed, accepted, error or command-specific reply.
C29_RepliesCarryMsgId ==
    callback = "request" /\ Accepted =>
        \A i \in 1..Len(replies) :
            replies[i].correlId = RequestMsgId /\ replies[i].msgId = GeneratedUuid

\* the operations of the synchronous commands
SynchronousOperations ==
    {"set_inhibits", "payout", "float", "set_denomination_level", "get_all_levels",
     "get_firmware_version", "get_dataset_version", "last_reject_note"}

\* the last exchange of the callback is one of a synchronous command and timed out
TimedOut ==
    /\ callback = "request"
    /\ Accepted
    /\ exchanges # <<>>
    /\ exchanges[Len(exchanges)].op \in SynchronousOperations
    /\ exchanges[Len(exchanges)].res = "TIMEOUT"

\* C30: when the exchange of a synchronous command times out, the reply to the
\* command reports the failure as an error or as result failed, carries
\* correlId = the msgId of the request and holds no data of the missing
\* response.
C30_TimeoutReportedAsFailure ==
    TimedOut =>
        /\ replies # <<>>
        /\ LET reply == replies[Len(replies)]
           IN  /\ reply.correlId = RequestMsgId
               /\ \/ reply.key = "error"
                  \/ reply.key = "result" /\ reply.value = <<"failed">>

-----------------------------------------------------------------------------
(* C31: commands without their parameters *)

\* the request names a command with parameters and lacks one of them, or has
\* it with the wrong type
LacksParameter ==
    \/ (\E c \in ChannelCommands : NamesOnly(c)) /\ ~ChannelsGiven
    \/ /\ \E c \in PayoutCommands : NamesOnly(c)
       /\ ~json_is_number(json_object_get(RequestJson, <<"amount">>))
    \/ /\ NamesOnly("set-denomination-level")
       /\ \/ ~json_is_number(json_object_get(RequestJson, <<"level">>))
          \/ ~json_is_number(json_object_get(RequestJson, <<"amount">>))

\* C31: with hardware, a command that lacks a required parameter of the right
\* type (channels as a string; a numeric amount for payout and float; numeric
\* level and amount for set-denomination-level) is answered by an error reply
\* with correlId = the msgId of the request, sends no exchange and leaves the
\* cached inhibit mask unchanged.
C31_MissingParameterRefused ==
    LacksParameter /\ deviceAvailable =>
        /\ Len(replies) = 1
        /\ replies[1].key = "error"
        /\ replies[1].correlId = RequestMsgId
        /\ exchanges = <<>>
        /\ MaskNow = MaskBefore

-----------------------------------------------------------------------------
(* C32: the reply to get-all-levels *)

\* get-all-levels was handled and its exchange was answered OK
LevelsAnswered ==
    /\ NamesOnly("get-all-levels")
    /\ deviceAvailable
    /\ Len(exchanges) = 1
    /\ exchanges[1].op = "get_all_levels"
    /\ exchanges[1].res = "OK"

\* the bytes of counter j (from 1) in the response
CounterBytes(j) == SubSeq(exchanges[1].data, 9 * j - 7, 9 * j + 1)

\* the number x is what the bytes, lowest first, stand for
IsLittleEndian(x, bytes) ==
    /\ x >= 0
    /\ \A k \in 1..Len(bytes) : (x \div (256 ^ (k - 1))) % 256 = bytes[k]
    /\ Len(bytes) < 4 => x < 256 ^ Len(bytes)

\* C32: the reply to get-all-levels holds a levels array with exactly n
\* entries, n the number of counters of the response, in the order of the
\* response, each with the level (2 bytes little-endian), the value (4 bytes
\* little-endian) and the 3 characters of the currency of its counter; n = 0
\* gives the empty array.
C32_LevelsOfResponse ==
    LevelsAnswered =>
        /\ Len(replies) = 1
        /\ replies[1].key = "levels"
        /\ Len(replies[1].levels) = exchanges[1].data[1]
        /\ \A j \in 1..Len(replies[1].levels) :
            LET entry == replies[1].levels[j]
                bytes == CounterBytes(j)
            IN  /\ IsLittleEndian(entry.level, SubSeq(bytes, 1, 2))
                /\ IsLittleEndian(entry.value, SubSeq(bytes, 3, 6))
                /\ entry.cc = SubSeq(bytes, 7, 9)

-----------------------------------------------------------------------------
(* C33: the topics and the devices *)

\* the callback spoke to the device at addr only and replied on topic only
OnlyTo(addr, topic) ==
    /\ \A i \in 1..Len(exchanges) : exchanges[i].addr = addr
    /\ \A i \in 1..Len(replies) : replies[i].topic = topic

\* the events published on topic
EventsOn(topic) == {i \in 1..Len(events) : events[i].topic = topic}

\* C33: a request on hopper-request sends its exchanges to the hopper (0x10)
\* only and is answered on hopper-response only, a request on
\* validator-request to the validator (0x00) and on validator-response; the
\* poll events of the hopper are published on hopper-event only, those of the
\* validator on validator-event only; a message on metacash produces no reply
\* and no exchange.
C33_TopicsAndDevices ==
    /\ callback = "request" /\ request.topic = "hopper-request"
        => OnlyTo(16, "hopper-response") /\ events = <<>>
    /\ callback = "request" /\ request.topic = "validator-request"
        => OnlyTo(0, "validator-response") /\ events = <<>>
    /\ Ticked
        => /\ replies = <<>>
           /\ Cardinality(EventsOn("hopper-event")) <= Len(polled[1].batch)
           /\ Cardinality(EventsOn("validator-event")) <= Len(polled[2].batch)
           /\ EventsOn("hopper-event") \cup EventsOn("validator-event") = 1..Len(events)
    /\ callback = "metacash" => replies = <<>> /\ exchanges = <<>> /\ events = <<>>

C33_Reached ==
    /\ callback = "request"
    /\ request.topic = "hopper-request"
    /\ Len(exchanges) = 2
    /\ exchanges[2].addr = 16
    /\ Len(replies) = 1
    /\ replies[1].topic = "hopper-response"

-----------------------------------------------------------------------------
(* C34: the poll timer *)

\* C34: whenever the serial device was opened at startup, the poll timer is
\* armed before the event loop starts, whatever the outcome of the steps of
\* initialization and post-init, a failed set_inhibits or enable_payout of the
\* validator included.
C34_PollTimerArmed == HardwareSetUp => pollArmed

-----------------------------------------------------------------------------
(* C35: the replies to the version commands *)

\* the text of a reply with one payload string, as replyWith publishes it
Rendered(reply) ==
    <<"{">> \o Quoted(<<"correlId">>) \o <<":">> \o Quoted(reply.correlId) \o <<",">>
    \o Quoted(<<reply.key>>) \o <<":">> \o Quoted(reply.value) \o reply.closing

\* the bytes a version command takes from the answer of its exchange
VersionBytesOf(c) == IF c = "get-firmware-version" THEN 16 ELSE 8

\* version command c was handled and made its exchange
VersionAsked(c) ==
    /\ NamesOnly(c)
    /\ deviceAvailable
    /\ Len(exchanges) = 1
    /\ exchanges[1].op \in {"get_firmware_version", "get_dataset_version"}

\* C35: the replies to get-firmware-version and get-dataset-version are
\* well-formed JSON objects {correlId: the msgId of the request, version: text},
\* the text being the 16 (firmware) or 8 (dataset) bytes the device returned in
\* this exchange.
C35_VersionReplies ==
    \A c \in {"get-firmware-version", "get-dataset-version"} :
        VersionAsked(c) /\ exchanges[1].res = "OK" =>
            /\ Len(replies) = 1
            /\ LET parsed == json_loads(Rendered(replies[1])) IN
               /\ parsed # JNull
               /\ json_string_value(json_object_get(parsed, <<"correlId">>)) = RequestMsgId
               /\ json_string_value(json_object_get(parsed, <<"version">>))
                    = [i \in 1..VersionBytesOf(c) |-> AsciiOf(exchanges[1].data[i])]

-----------------------------------------------------------------------------
(* C36: without hardware *)

\* C36: when no serial device was opened at startup, no SSP exchange is ever
\* sent, not during setup, not on a poll tick and not for any request (quit,
\* unknown and malformed ones included), and no event is ever published.
C36_NothingWithoutHardware ==
    ~deviceAvailable => exchanges = <<>> /\ events = <<>>

\* without hardware, a quit request has been handled and answered
C36_Reached ==
    /\ ~deviceAvailable
    /\ AcceptedCmd("quit")
    /\ Len(replies) = 1
    /\ replies[1].value = <<"hardware unavailable">>

-----------------------------------------------------------------------------
(* C37: the index into the cached channel table *)

\* C37: whenever the validator's event handler reads the cached channel table
\* for a READ or CREDIT event (the event published with amount and channel
\* data1), the index data1 - 1 lies within 0 .. NumberOfChannels - 1 of the
\* cached report, for every data1 of a poll response and also when the
\* validator's setup_request failed at startup.
C37_ChannelIndexInRange ==
    Ticked =>
        \A i \in 1..Len(EventsOf("validator")) :
            LET e == EventsOf("validator")[i] IN
            e.event \in {"read", "credit"} =>
                e.channel[1] - 1 \in 0..(Len(sspSetupReq["validator"]) - 1)

-----------------------------------------------------------------------------
(* C38: the error text of a failed payout or float *)

\* the callback sent one payout or float exchange and it did not return OK
PayoutFailed ==
    /\ callback = "request"
    /\ Accepted
    /\ Len(exchanges) = 1
    /\ exchanges[1].op \in {"payout", "float"}
    /\ exchanges[1].res # "OK"

\* C38: when the exchange of a payout or float command does not return OK, the
\* error text of the reply is determined by the response to that exchange alone
\* (failure code 0x01 .. 0x04, otherwise 'unknown'); after a timeout, where no
\* response arrived, the text is 'unknown' whatever an earlier exchange left in
\* the response buffer.
C38_ErrorTextOfThisExchange ==
    PayoutFailed =>
        /\ Len(replies) = 1
        /\ replies[1].key = "error"
        /\ LET code == exchanges[1].data1 IN
           replies[1].value =
                IF exchanges[1].res # "TIMEOUT" /\ code \in 1..4
                THEN <<FailureTexts[code]>> ELSE <<"unknown">>

-----------------------------------------------------------------------------
(* C39: one envelope for every poll event *)

\* the event codes the handler of device has a case for, among those drawn
KnownCodes(device) ==
    {"RESET", "DISABLED", "READ", "CREDIT", "CALIBRATION_FAIL"}
    \cup (IF device = "hopper"
          THEN {"JAMMED", "DISPENSING", "DISPENSED", "CASHBOX_PAID", "COIN_CREDIT"}
          ELSE {})

\* the tick polled device, the poll was answered OK and the daemon went on
PollAnswered(device) ==
    /\ Ticked
    /\ pc # "exited"
    /\ PolledOf(device).res = "OK"

\* C39: every event of a successfully answered poll batch results in exactly
\* one event on the event topic of the polled device, whatever its code and
\* data: none is dropped and none is published twice; an event code the
\* handler of the device does not know is published as 'unknown' with its code
\* as id.
C39_OneEnvelopePerEvent ==
    \A device \in Devices :
        PollAnswered(device) =>
            LET batch == PolledOf(device).batch
                published == EventsOf(device)
            IN  /\ Len(published) = Len(batch)
                /\ \A i \in 1..Len(batch) :
                    batch[i].event \notin KnownCodes(device) /\ i <= Len(published) =>
                        published[i].event = "unknown" /\ published[i].id = batch[i].event

-----------------------------------------------------------------------------
(* C40: what changes the cached masks *)

\* the callback that ran last changed the cached mask of device
MaskChanged(device) == channelInhibits[device] # inhibitsBefore[device]

\* the callback that ran last was a run of enable-channels or disable-channels
\* on the request topic of device whose set_inhibits exchange returned OK
EnableOrDisableAccepted(device) ==
    /\ callback = "request"
    /\ DeviceOf(request.topic) = device
    /\ \/ isCommand(request.message, <<"enable-channels">>)
       \/ isCommand(request.message, <<"disable-channels">>)
    /\ Len(exchanges) = 1
    /\ exchanges[1].op = "set_inhibits"
    /\ exchanges[1].addr = SSPAddress(device)
    /\ exchanges[1].res = "OK"

\* C40: after startup the cached inhibit mask of a device changes only in a run
\* of enable-channels or disable-channels on the request topic of that device
\* whose set_inhibits exchange returned OK; every other step leaves the masks of
\* both devices as they were: polls and their event handling, inhibit-channels,
\* every other command, rejected or failed requests, and requests on the topic
\* of the other device.
C40_MaskChangesOnlyByEnableDisable ==
    \A device \in Devices : MaskChanged(device) => EnableOrDisableAccepted(device)

\* disable-channels on hopper-request changed the hopper's mask and left the
\* validator's
C40_Reached ==
    /\ MaskChanged("hopper")
    /\ ~MaskChanged("validator")
    /\ request.topic = "hopper-request"
    /\ AcceptedCmd("disable-channels")
    /\ exchanges[1].res = "OK"

====
